---- MODULE Spec2Model ----
(***************************************************************************)
(* Deck builder of technical-update-briefings (generate_deck.py):          *)
(* build() and its merge step (_dedup_keep_order, items.sort, grouping),   *)
(* the slide builders it calls, the save routine _safe_save, the HTML      *)
(* parsers parse_roadmap_html and parse_message_center_html,               *)
(* normalize_item, and the command line (main(), run.ps1); the geometry    *)
(* helpers inches_to_emu and _inches and the slide builders one call at a  *)
(* time; the bot server's POST /api/ask with its Dispatcher and queues     *)
(* (MemoryQueue, StorageQueue); and the meeting tab's release, pin and     *)
(* ask-queue handlers over the shared state.                               *)
(*                                                                         *)
(* Strings are sequences of character codes, so that lower(), strip() and  *)
(* Python's string ordering are computed, not assumed.                     *)
(***************************************************************************)
EXTENDS Integers, Sequences, FiniteSets, TLC

VARIABLES
    pc,          \* position in build() / _safe_save()
    inputs,      \* build(inputs): per input path, the records its parser returns
    assets,      \* build(assets): which asset image paths exist on disk
    slides,      \* prs.slides: the slides appended so far, in order
    exc,         \* the exception that left build(), or "none"
    all_items,   \* build: all_items
    items,       \* build: items
    order,       \* build: order
    by_product,  \* build: by_product
    output_path, \* _safe_save: output_path
    i,           \* _safe_save: loop index
    clock,       \* wall clock read by datetime.now(), in seconds
    attempts,    \* every prs.save(path) made so far: [path, outcome]
    returned,    \* value returned by _safe_save, or NoPath
    reported,    \* path printed by build() after _safe_save, or NoPath
    parser,      \* which parser runs: "roadmap" or "message_center"
    file,        \* what html_path names on disk
    soup,        \* the parsed document: its tables and card-like containers
    month,       \* the month argument of the parser
    dicts,       \* the parser's items list, which build() receives as dicts
    ran,         \* the extraction paths of the parser that have run
    item,        \* normalize_item: the Item i, changed in place
    raw,         \* the Item as it was passed to normalize_item
    on_disk,     \* per requested input path, whether it exists on disk
    exit_code,   \* exit status of the process, or NoExit while it runs
    queue_kind,  \* createQueueFromEnv: QUEUE_KIND, "memory" or "storage"
    queue,       \* MemoryQueue.q, or the messages of the storage queue
    batch,       \* Dispatcher.drain: the tasks of the batch still to deliver
    timers,      \* Dispatcher.drain: tasks waiting in setTimeout to be enqueued
    dlq,         \* the messages of the dead-letter queue
    sends,       \* messages the storage queue has been sent so far
    asked,       \* ids of the tasks Dispatcher.enqueue has accepted, in order
    log,         \* per task id, the Dispatcher.deliver calls made so far
    released,    \* MeetingTab: released
    currentId,   \* MeetingTab: currentId, or NoTopic for null
    shared,      \* MeetingTab: whether shared holds the SharedState yet
    storage,     \* localStorage["briefing-state"], as SharedState reads it
    context,     \* whether the page URL names a meeting or a user
    flush,       \* the flushAskQueue call under way: its q, position, remaining
    posted,      \* idempotency keys of the asks POSTed to /api/ask so far
    enqueued,    \* idempotency keys of the asks enqueueAsk was given so far
    builder,     \* the slide builder that is called
    image,       \* what the builder's asset image path names on disk
    slide_item,  \* add_item_slide: it
    month_str,   \* add_item_slide: month_str
    rail,        \* add_item_slide: rail_left_in, rail_width_in, the slide size
    shapes,      \* slide.shapes of the slide the builder added, in order
    helper,      \* the unit helper that is called
    arg,         \* its argument, in hundredths of an inch, or None
    gave         \* what the call gave: the value returned or the exception

parseVars == <<parser, file, soup, month, dicts, ran>>
normVars == <<item, raw>>
cliVars == <<on_disk, exit_code>>
botVars == <<queue_kind, queue, batch, timers, dlq, sends, asked, log>>
tabVars == <<released, currentId, shared, storage, context, flush, posted, enqueued>>
drawVars == <<builder, image, slide_item, month_str, rail, shapes>>
unitVars == <<helper, arg, gave>>
appVars == <<botVars, tabVars, drawVars, unitVars>>
extVars == <<parseVars, normVars, cliVars, appVars>>

vars == <<pc, inputs, assets, slides, exc, all_items, items, order, by_product,
          output_path, i, clock, attempts, returned, reported, extVars>>

mergeVars == <<all_items, items, order, by_product>>
saveVars == <<output_path, i, clock, attempts, returned, reported>>

-----------------------------------------------------------------------------
(* Bounds *)

MaxItems == 3   \* records returned by the parsers, over all inputs
MaxClock == 2   \* seconds the clock may advance during the save retries
MaxRows == 2    \* table rows of a parsed document, over its tables
MaxCards == 1   \* card-like containers of a parsed document
MaxAsks == 2    \* tasks Dispatcher.enqueue accepts
MaxLog == 6     \* Dispatcher.deliver calls
MaxSends == 3   \* messages sent to the storage queue
MaxAskItems == 2  \* asks made in the meeting tab
MaxArg == 60    \* a length handed to a unit helper, in hundredths of an inch

-----------------------------------------------------------------------------
(* Python str operations on sequences of character codes *)

\* x or y, for strings and lists: the first operand when it is truthy (non-empty)
PyOr(x, y) == IF x # <<>> THEN x ELSE y

\* str.lower(), on the ASCII letters
Lower(s) == [k \in DOMAIN s |-> IF s[k] >= 65 /\ s[k] <= 90 THEN s[k] + 32 ELSE s[k]]

IsSpace(c) == c \in {9, 10, 13, 32}

RECURSIVE LStrip(_)
LStrip(s) == IF s # <<>> /\ IsSpace(Head(s)) THEN LStrip(Tail(s)) ELSE s

RECURSIVE RStrip(_)
RStrip(s) ==
    IF s # <<>> /\ IsSpace(s[Len(s)]) THEN RStrip(SubSeq(s, 1, Len(s) - 1)) ELSE s

\* str.strip()
Strip(s) == RStrip(LStrip(s))

\* a < b for two strings: by code point, a proper prefix is smaller
StrLess(a, b) ==
    LET n == IF Len(a) < Len(b) THEN Len(a) ELSE Len(b)
        d == {k \in 1..n : a[k] # b[k]}
    IN  IF d = {} THEN Len(a) < Len(b)
        ELSE LET k == CHOOSE m \in d : \A o \in d : m <= o IN a[k] < b[k]

\* a < b for two lists of strings
ListLess(a, b) ==
    LET n == IF Len(a) < Len(b) THEN Len(a) ELSE Len(b)
        d == {k \in 1..n : a[k] # b[k]}
    IN  IF d = {} THEN Len(a) < Len(b)
        ELSE LET k == CHOOSE m \in d : \A o \in d : m <= o IN StrLess(a[k], b[k])

Range(s) == {s[k] : k \in DOMAIN s}

-----------------------------------------------------------------------------
(* Records returned by the parsers, and the Items _to_item makes of them *)

General == <<71, 101, 110, 101, 114, 97, 108>>  \* "General"

\* Field values: "a", "A", "B", "u", and the product cells "S", "T".
\* The parsers strip every text they emit and leave out a field that is
\* empty; an absent key reads as None, written <<>> here.
RoadmapIds == {<<>>, <<97>>, <<65>>}
Titles == {<<97>>, <<66>>}

\* normalize_item clamps a title to 140 characters
TitleMax == 140

\* a title of TitleMax + 1 characters
LongTitle == [k \in 1..(TitleMax + 1) |-> 120]

Record(rid, title, url, products) ==
    [roadmap_id |-> rid, title |-> title, url |-> url, products |-> products]

\* records with a title and a link, records with neither a roadmap_id nor a
\* title (a link only, or nothing but the month), and a record whose title
\* is longer than a slide title may be
RecordUniverse ==
    {Record(r, t, <<117>>, p) : r \in RoadmapIds, t \in Titles, p \in {<<>>, <<84>>}}
    \cup {Record(<<>>, <<>>, u, p) : u \in {<<>>, <<117>>}, p \in {<<>>, <<83>>}}
    \cup {Record(<<>>, LongTitle, <<117>>, <<>>)}

SeqsUpTo(S, n) == UNION {[1..k -> S] : k \in 0..n}

\* two input paths, as the command line passes them (roadmap export, then
\* message-center export), each with the records its parser returns
IsInputList(ins) ==
    \E l \in SeqsUpTo(RecordUniverse, MaxItems), k \in 0..MaxItems :
        /\ k <= Len(l)
        /\ ins = <<SubSeq(l, 1, k), SubSeq(l, k + 1, Len(l))>>

\* _to_item: None becomes "" for the string fields and [] for the list
\* fields; a single products value is wrapped into a one-element list
_to_item(d) ==
    [roadmap_id |-> d.roadmap_id, title |-> d.title, url |-> d.url,
     products |-> IF d.products = <<>> THEN <<>> ELSE <<d.products>>]

\* for path in inputs: all_items.extend(_to_item(d) for d in dicts)
RECURSIVE Aggregate(_)
Aggregate(ins) ==
    IF ins = <<>> THEN <<>>
    ELSE [k \in DOMAIN Head(ins) |-> _to_item(Head(ins)[k])] \o Aggregate(Tail(ins))

-----------------------------------------------------------------------------
(* build(): de-duplication *)

\* key = (it.roadmap_id or it.title or it.url or "").lower().strip()
DedupKey(it) == Strip(Lower(PyOr(it.roadmap_id, PyOr(it.title, PyOr(it.url, <<>>)))))

\* the last occurrence of a key replaces the earlier one
RECURSIVE DedupLoop_KeepLast(_, _, _)
DedupLoop_KeepLast(seq, seen, out) ==
    IF seq = <<>> THEN out
    ELSE LET it == Head(seq)
             key == DedupKey(it)
         IN  IF key = <<>> THEN DedupLoop_KeepLast(Tail(seq), seen, out)
             ELSE DedupLoop_KeepLast(Tail(seq), seen \cup {key},
                      Append(SelectSeq(out, LAMBDA o : DedupKey(o) # key), it))

\* the seen set is never consulted
DedupLoop_NoSeen(seq, seen, out) ==
    out \o SelectSeq(seq, LAMBDA it : DedupKey(it) # <<>>)

\* for it in seq: skip an empty or already seen key, else keep the Item
RECURSIVE DedupLoop(_, _, _)
DedupLoop(seq, seen, out) ==
    IF seq = <<>> THEN out
    ELSE LET it == Head(seq)
             key == DedupKey(it)
         IN  IF key = <<>> \/ key \in seen
             THEN DedupLoop(Tail(seq), seen, out)
             ELSE DedupLoop(Tail(seq), seen \cup {key}, Append(out, it))

_dedup_keep_order(seq) == DedupLoop(seq, {}, <<>>)

-----------------------------------------------------------------------------
(* build(): items.sort(key=lambda i: (i.products or "", i.title or "")) *)

\* the key's first component is the products list, or the str "" when the
\* list is empty: two different Python types
SortKey(it) ==
    [ptype |-> IF it.products # <<>> THEN "list" ELSE "str",
     p |-> PyOr(it.products, <<>>),
     t |-> PyOr(it.title, <<>>)]

\* tuple comparison x < y: the first differing component decides; a list and
\* a str never compare equal, and ordering them raises TypeError
KeyLess(x, y) ==
    IF x.ptype # y.ptype THEN "TypeError"
    ELSE LET lt == IF x.p # y.p
                   THEN (IF x.ptype = "list" THEN ListLess(x.p, y.p)
                                             ELSE StrLess(x.p, y.p))
                   ELSE StrLess(x.t, y.t)
         IN  IF lt THEN "lt" ELSE "ge"

Ok(l) == [exc |-> "none", list |-> l]
Raise(e) == [exc |-> e, list |-> <<>>]

\* an unstable insertion: x goes before the elements that compare equal to it
RECURSIVE InsertSorted_Unstable(_, _)
InsertSorted_Unstable(x, s) ==
    IF s = <<>> THEN Ok(<<x>>)
    ELSE LET last == s[Len(s)]
             c == KeyLess(SortKey(last), SortKey(x))
         IN  IF c = "TypeError" THEN Raise("TypeError")
             ELSE IF c = "lt" THEN Ok(Append(s, x))
                  ELSE LET r == InsertSorted_Unstable(x, SubSeq(s, 1, Len(s) - 1))
                       IN  IF r.exc # "none" THEN r ELSE Ok(Append(r.list, last))

\* insert x into the sorted run s, after every element not greater than x
RECURSIVE InsertSorted(_, _)
InsertSorted(x, s) ==
    IF s = <<>> THEN Ok(<<x>>)
    ELSE LET last == s[Len(s)]
             c == KeyLess(SortKey(x), SortKey(last))
         IN  IF c = "TypeError" THEN Raise("TypeError")
             ELSE IF c = "lt"
                  THEN LET r == InsertSorted(x, SubSeq(s, 1, Len(s) - 1))
                       IN  IF r.exc # "none" THEN r ELSE Ok(Append(r.list, last))
                  ELSE Ok(Append(s, x))

RECURSIVE SortLoop(_, _)
SortLoop(todo, done) ==
    IF todo = <<>> THEN Ok(done)
    ELSE LET r == InsertSorted(Head(todo), done)
         IN  IF r.exc # "none" THEN r ELSE SortLoop(Tail(todo), r.list)

\* list.sort(): stable, ascending; the comparison's TypeError propagates
ListSort(seq) == SortLoop(seq, <<>>)

\* items = _dedup_keep_order(all_items); items.sort(...)
DedupAndOrder(seq) == ListSort(_dedup_keep_order(seq))

-----------------------------------------------------------------------------
(* build(): grouping by primary product *)

\* prod = (it.products[0] if it.products else "General").strip() or "General"
PrimaryProduct(it) ==
    PyOr(Strip(IF it.products # <<>> THEN it.products[1] ELSE General), General)

\* for it in items: first sight of prod appends it to order; by_product[prod]
\* collects the Items of prod in items order
RECURSIVE GroupLoop(_, _, _)
GroupLoop(seq, ord, byp) ==
    IF seq = <<>> THEN [order |-> ord, by_product |-> byp]
    ELSE LET it == Head(seq)
             prod == PrimaryProduct(it)
         IN  IF prod \notin DOMAIN byp
             THEN GroupLoop(Tail(seq), Append(ord, prod),
                            [q \in DOMAIN byp \cup {prod} |->
                                IF q = prod THEN <<it>> ELSE byp[q]])
             ELSE GroupLoop(Tail(seq), ord,
                            [byp EXCEPT ![prod] = Append(@, it)])

NoGroups == [q \in {} |-> <<>>]

-----------------------------------------------------------------------------
(* Slide builders: what each call appends to prs.slides and how it returns *)

Updates == <<32, 117, 112, 100, 97, 116, 101, 115>>  \* " updates"
NoUpdatesFound ==
    <<78, 111, 32, 117, 112, 100, 97, 116, 101, 115, 32, 102, 111, 117, 110, 100>>
Untitled == <<85, 110, 116, 105, 116, 108, 101, 100>>  \* "Untitled"

Slide(kind, title) == [kind |-> kind, title |-> title]

Done(sl) == [exc |-> "none", slides |-> sl]
Thrown(e, sl) == [exc |-> e, slides |-> sl]

\* _inches(x) calls itself unconditionally: every call ends in RecursionError
_inches == "RecursionError"

\* add_picture_safe: returns None without drawing when the image is missing,
\* else converts its offsets with _inches
add_picture_safe(image_exists) == IF image_exists THEN _inches ELSE "none"

\* add_bg -> add_full_slide_picture: a missing image is ignored
add_bg(image_exists) == IF image_exists THEN add_picture_safe(TRUE) ELSE "none"

\* add_title_box / add_text_box: the box is created at _inches(...) offsets
add_title_box == _inches

\* add_cover_slide: appends the blank slide, draws the background, then
\* evaluates the dates box arguments left, top, height and width, names that
\* are bound nowhere in the function or the module
add_cover_slide(sl, a) ==
    LET s1 == Append(sl, Slide("Cover", <<>>))
        bg == add_bg(a.cover)
    IN  IF bg # "none" THEN Thrown(bg, s1) ELSE Thrown("NameError", s1)

\* add_separator_slide(prs, assets, title): any other keyword is rejected
\* by the call itself, before the body runs
add_separator_slide(sl, a, title, kwargs) ==
    IF kwargs \ {"title"} # {} THEN Thrown("TypeError", sl)
    ELSE LET s1 == Append(sl, Slide("Separator", title))
             bg == add_bg(a.separator)
         IN  IF bg # "none" THEN Thrown(bg, s1) ELSE Thrown(add_title_box, s1)

\* add_item_slide: draws with pptx.util.Inches directly; the brand image is
\* inserted inside try/except, so the builder always returns
add_item_slide(sl, it) ==
    Done(Append(sl, Slide("Item", PyOr(Strip(it.title), Untitled))))

\* for it in by_product[prod]: add_item_slide(...)
RECURSIVE ItemSlidesLoop(_, _)
ItemSlidesLoop(its, sl) ==
    IF its = <<>> THEN Done(sl)
    ELSE LET r == add_item_slide(sl, Head(its))
         IN  IF r.exc # "none" THEN r ELSE ItemSlidesLoop(Tail(its), r.slides)

\* for prod in order: add_separator_slide(prs, assets, title=f"{prod} updates",
\*                                        subtitle=month or ""); item slides
RECURSIVE GroupSlidesLoop(_, _, _, _)
GroupSlidesLoop(ord, byp, a, sl) ==
    IF ord = <<>> THEN Done(sl)
    ELSE LET r == add_separator_slide(sl, a, Head(ord) \o Updates,
                                      {"title", "subtitle"})
         IN  IF r.exc # "none" THEN r
             ELSE LET r2 == ItemSlidesLoop(byp[Head(ord)], r.slides)
                  IN  IF r2.exc # "none" THEN r2
                      ELSE GroupSlidesLoop(Tail(ord), byp, a, r2.slides)

-----------------------------------------------------------------------------
(* build(), from its entry: the cover slide comes first *)

NoPath == <<>>

Idle ==
    /\ all_items = <<>> /\ items = <<>> /\ order = <<>> /\ by_product = NoGroups
    /\ output_path = NoPath /\ i = 0 /\ clock = 0 /\ attempts = <<>>
    /\ returned = NoPath /\ reported = NoPath

\* a document without tables and without card-like containers
EmptySoup == [tables |-> <<>>, cards |-> <<>>]

\* Item(): every field at its default
NoItem == [title |-> <<>>, status |-> <<>>, phases |-> <<>>, product |-> <<>>,
           products |-> <<>>]

NoExit == -1

IdemKey == <<107>>   \* "k"

\* uuidv4(): the n-th fresh id
Uuid(n) == <<117, 48 + n>>

\* the ids a task can have: the idempotency key, or a fresh uuid
TaskIds == {IdemKey} \cup {Uuid(n) : n \in 1..MaxAsks}

NoLog == [id \in TaskIds |-> <<>>]

\* the number of Dispatcher.deliver calls made so far
RECURSIVE SumLen(_, _)
SumLen(l, S) ==
    IF S = {} THEN 0
    ELSE LET id == CHOOSE x \in S : TRUE
         IN  Len(l[id]) + SumLen(l, S \ {id})

Delivers(l) == SumLen(l, DOMAIN l)

\* the bot server is not running
IdleBot ==
    /\ queue_kind = "memory" /\ queue = <<>> /\ batch = <<>> /\ timers = <<>>
    /\ dlq = <<>> /\ sends = 0 /\ asked = <<>> /\ log = NoLog

NoTopic == ""

\* new SharedState(key), with nothing in localStorage
FreshStorage ==
    [currentTopicId |-> NoTopic, releasedTopicIds |-> <<>>, pendingAskQueue |-> <<>>]

NoFlush == [q |-> <<>>, at |-> 0, remaining |-> <<>>]

\* the meeting tab is not open
IdleTab ==
    /\ released = <<>> /\ currentId = NoTopic /\ shared = FALSE
    /\ storage = FreshStorage /\ context = FALSE /\ flush = NoFlush
    /\ posted = {} /\ enqueued = {}

None == -1000000

\* Item(), as far as add_item_slide reads it
BlankItem ==
    [title |-> <<>>, summary |-> <<>>, description |-> <<>>, roadmap_id |-> <<>>,
     url |-> <<>>, status |-> <<>>, products |-> <<>>, platforms |-> <<>>,
     audience |-> <<>>]

\* add_item_slide's defaults on a blank presentation of 10 by 7.5 inches
DefaultRail == [left_in |-> 350, width_in |-> 350, sw |-> 1000, sh |-> 750]

\* no slide builder is called
IdleDraw ==
    /\ builder = "none" /\ image = "none" /\ slide_item = BlankItem
    /\ month_str = <<>> /\ rail = DefaultRail /\ shapes = <<>>

\* no unit helper is called
IdleUnit == helper = "none" /\ arg = None /\ gave = [exc |-> "none", value |-> 0]

IdleApp == IdleBot /\ IdleTab /\ IdleDraw /\ IdleUnit

\* no parser, no normalize_item call and no process of its own is under way
IdleExt ==
    /\ parser = "roadmap" /\ file = "missing" /\ soup = EmptySoup /\ month = <<>>
    /\ dicts = <<>> /\ ran = {}
    /\ item = NoItem /\ raw = NoItem
    /\ on_disk = <<TRUE, TRUE>> /\ exit_code = NoExit
    /\ IdleApp

AssetConfigs == [cover : BOOLEAN, separator : BOOLEAN]

Init ==
    /\ pc = "start"
    /\ IsInputList(inputs)
    /\ assets \in AssetConfigs
    /\ slides = <<>>
    /\ exc = "none"
    /\ Idle
    /\ IdleExt

\* prs = Presentation(...); add_cover_slide(prs, assets, ...)
BuildCover ==
    /\ pc = "start"
    /\ LET r == add_cover_slide(slides, assets)
       IN  /\ slides' = r.slides
           /\ exc' = r.exc
           /\ pc' = IF r.exc # "none" THEN "raised" ELSE "agenda"
    /\ UNCHANGED <<extVars, inputs, assets, mergeVars, saveVars>>

Next == BuildCover

Spec == Init /\ [][Next]_vars

-----------------------------------------------------------------------------
(* build()'s merge step, applied to any aggregated list *)

InitMerge ==
    /\ pc = "parsed"
    /\ IsInputList(inputs)
    /\ assets = [cover |-> FALSE, separator |-> FALSE]
    /\ slides = <<>>
    /\ exc = "none"
    /\ Idle
    /\ IdleExt

\* all_items: the records of every input, in input order, as Items
AggregateItems ==
    /\ pc = "parsed"
    /\ all_items' = Aggregate(inputs)
    /\ pc' = "aggregated"
    /\ UNCHANGED <<extVars, inputs, assets, slides, exc, items, order, by_product, saveVars>>

\* items = _dedup_keep_order(all_items)
DedupKeepOrder ==
    /\ pc = "aggregated"
    /\ items' = _dedup_keep_order(all_items)
    /\ pc' = "deduped"
    /\ UNCHANGED <<extVars, inputs, assets, slides, exc, all_items, order, by_product, saveVars>>

\* items.sort(key=...)
SortItems ==
    /\ pc = "deduped"
    /\ LET r == ListSort(items)
       IN  IF r.exc # "none"
           THEN /\ exc' = r.exc /\ pc' = "raised" /\ UNCHANGED items
           ELSE /\ items' = r.list /\ pc' = "sorted" /\ UNCHANGED exc
    /\ UNCHANGED <<extVars, inputs, assets, slides, all_items, order, by_product, saveVars>>

\* if items: group by product
GroupByProduct ==
    /\ pc = "sorted"
    /\ items # <<>>
    /\ LET g == GroupLoop(items, <<>>, NoGroups)
       IN  order' = g.order /\ by_product' = g.by_product
    /\ pc' = "grouped"
    /\ UNCHANGED <<extVars, inputs, assets, slides, exc, all_items, items, saveVars>>

\* if items: for prod in order: separator slide, then the group's item slides
EmitGroupSlides ==
    /\ pc = "grouped"
    /\ LET r == GroupSlidesLoop(order, by_product, assets, slides)
       IN  /\ slides' = r.slides
           /\ exc' = r.exc
           /\ pc' = IF r.exc # "none" THEN "raised" ELSE "emitted"
    /\ UNCHANGED <<extVars, inputs, assets, mergeVars, saveVars>>

\* else: add_separator_slide(prs, assets, title="No updates found", subtitle=...)
EmitNoUpdates ==
    /\ pc = "sorted"
    /\ items = <<>>
    /\ LET r == add_separator_slide(slides, assets, NoUpdatesFound,
                                    {"title", "subtitle"})
       IN  /\ slides' = r.slides
           /\ exc' = r.exc
           /\ pc' = IF r.exc # "none" THEN "raised" ELSE "emitted"
    /\ UNCHANGED <<extVars, inputs, assets, mergeVars, saveVars>>

NextMerge ==
    \/ AggregateItems
    \/ DedupKeepOrder
    \/ SortItems
    \/ GroupByProduct
    \/ EmitGroupSlides
    \/ EmitNoUpdates

SpecMerge == InitMerge /\ [][NextMerge]_vars

-----------------------------------------------------------------------------
(* _safe_save(prs, output_path, tries=4, delay_sec=0.6), and build()'s report *)

Tries == 4

\* "d.p", "d", ".p" and "a.b/d"
OutputPaths == {<<100, 46, 112>>, <<100>>, <<46, 112>>, <<97, 46, 98, 47, 100>>}

LastIndexOf(s, c) ==
    LET hits == {k \in DOMAIN s : s[k] = c}
    IN  IF hits = {} THEN 0 ELSE CHOOSE k \in hits : \A h \in hits : h <= k

\* os.path.splitext: the extension starts at the last dot of the last path
\* component, unless only dots precede it there
Splitext(path) ==
    LET sep == LastIndexOf(path, 47)
        dot == LastIndexOf(path, 46)
    IN  IF dot > sep /\ \E k \in (sep + 1)..(dot - 1) : path[k] # 46
        THEN [base |-> SubSeq(path, 1, dot - 1), ext |-> SubSeq(path, dot, Len(path))]
        ELSE [base |-> path, ext |-> <<>>]

\* datetime.now().strftime('%Y%m%d_%H%M%S'): one text per second of the
\* clock, written here as the digit of the second
Stamp(c) == <<48 + c>>

\* candidate = output_path if i == 0 else f"{base}_{stamp}_{i}{ext}"
Candidate(path, k, c) ==
    IF k = 0 THEN path
    ELSE Splitext(path).base \o <<95>> \o Stamp(c) \o <<95, 48 + k>>
         \o Splitext(path).ext

\* prs.save(path) returns, or raises PermissionError (the file is locked) or
\* another OSError (no such directory, disk full)
SaveOutcomes == {"ok", "PermissionError", "OSError"}

InitSave ==
    /\ pc = "save_loop"
    /\ inputs = <<<<>>, <<>>>>
    /\ assets = [cover |-> FALSE, separator |-> FALSE]
    /\ slides = <<>>
    /\ exc = "none"
    /\ all_items = <<>> /\ items = <<>> /\ order = <<>> /\ by_product = NoGroups
    /\ output_path \in OutputPaths
    /\ i = 0
    /\ clock \in 0..MaxClock
    /\ attempts = <<>>
    /\ returned = NoPath
    /\ reported = NoPath
    /\ IdleExt

\* one iteration of: for i in range(tries): try save(candidate), return it;
\* except PermissionError: sleep, continue
SaveAttempt ==
    /\ pc = "save_loop"
    /\ i < Tries
    /\ \E outcome \in SaveOutcomes :
          LET candidate == Candidate(output_path, i, clock)
          IN  /\ attempts' = Append(attempts, [path |-> candidate, outcome |-> outcome])
              /\ IF outcome = "ok"
                 THEN /\ returned' = candidate
                      /\ pc' = "returned"
                      /\ UNCHANGED <<exc, i, clock>>
                 ELSE IF outcome = "PermissionError"
                 THEN /\ i' = i + 1
                      /\ clock' \in {c \in {clock, clock + 1} : c <= MaxClock}
                      /\ UNCHANGED <<pc, exc, returned>>
                 ELSE /\ exc' = outcome
                      /\ pc' = "raised"
                      /\ UNCHANGED <<i, clock, returned>>
    /\ UNCHANGED <<extVars, inputs, assets, slides, mergeVars, output_path, reported>>

\* a failure of the last save is swallowed and the path returned anyway
SaveFinal_Swallow ==
    /\ pc = "save_loop"
    /\ i = Tries
    /\ \E outcome \in SaveOutcomes :
          attempts' = Append(attempts, [path |-> output_path, outcome |-> outcome])
    /\ returned' = output_path
    /\ pc' = "returned"
    /\ UNCHANGED <<extVars, inputs, assets, slides, exc, mergeVars, output_path, i, clock,
                   reported>>

\* after the loop: prs.save(output_path); return output_path
SaveFinal ==
    /\ pc = "save_loop"
    /\ i = Tries
    /\ \E outcome \in SaveOutcomes :
          /\ attempts' = Append(attempts, [path |-> output_path, outcome |-> outcome])
          /\ IF outcome = "ok"
             THEN /\ returned' = output_path
                  /\ pc' = "returned"
                  /\ UNCHANGED exc
             ELSE /\ exc' = outcome
                  /\ pc' = "raised"
                  /\ UNCHANGED returned
    /\ UNCHANGED <<extVars, inputs, assets, slides, mergeVars, output_path, i, clock, reported>>

\* build(): actual = _safe_save(prs, output_path); print(... actual)
BuildReport ==
    /\ pc = "returned"
    /\ reported' = returned
    /\ pc' = "done"
    /\ UNCHANGED <<extVars, inputs, assets, slides, exc, mergeVars, output_path, i, clock,
                   attempts, returned>>

NextSave ==
    \/ SaveAttempt
    \/ SaveFinal
    \/ BuildReport

SpecSave == InitSave /\ [][NextSave]_vars

-----------------------------------------------------------------------------
(* The parsers: parse_roadmap_html and parse_message_center_html.           *)
(* A document is what the parsers look up in it: its tables (the           *)
(* normalized texts of the th cells, and per row the texts of the td cells *)
(* and the href of the row's first link) and its card-like containers.     *)

Min(S) == CHOOSE m \in S : \A o \in S : m <= o

IsDigit(c) == c >= 48 /\ c <= 57
IsWord(c) == IsDigit(c) \/ (c >= 65 /\ c <= 90) \/ (c >= 97 /\ c <= 122) \/ c = 95

\* the last position of the run of digits that starts at s
DigitRunEnd(text, s) ==
    CHOOSE e \in s..Len(text) :
        /\ \A k \in s..e : IsDigit(text[k])
        /\ (e = Len(text) \/ ~IsDigit(text[e + 1]))

\* (\d{3,})\b matched at position s: the whole run of digits, when it has
\* three digits or more and no word character follows it; else ""
DigitsAt(text, s) ==
    IF s > Len(text) \/ ~IsDigit(text[s]) THEN <<>>
    ELSE LET e == DigitRunEnd(text, s)
         IN  IF e - s + 1 >= 3 /\ (e = Len(text) \/ ~IsWord(text[e + 1]))
             THEN SubSeq(text, s, e)
             ELSE <<>>

\* roadmap_html._FEATURE_ID_PAT = \b(\d{3,})\b: group 1 of the first match
\* in text, or ""
_FEATURE_ID_PAT(text) ==
    LET starts == {s \in DOMAIN text :
                      /\ (s = 1 \/ ~IsWord(text[s - 1]))
                      /\ DigitsAt(text, s) # <<>>}
    IN  IF starts = {} THEN <<>> ELSE DigitsAt(text, Min(starts))

FeatureIdEq == <<102, 101, 97, 116, 117, 114, 101, 105, 100, 61>>  \* "featureid="

\* re.search(r"[?&#]featureid=(\d{3,})\b", url, re.I): group 1, or ""
FeatureIdInUrl(url) ==
    LET hits == {p \in DOMAIN url :
                    /\ url[p] \in {63, 38, 35}
                    /\ p + 10 <= Len(url)
                    /\ Lower(SubSeq(url, p + 1, p + 10)) = FeatureIdEq
                    /\ DigitsAt(url, p + 11) # <<>>}
    IN  IF hits = {} THEN <<>> ELSE DigitsAt(url, Min(hits) + 11)

\* \s*: the first position from p on that holds no whitespace
SkipWs(text, p) ==
    Min({q \in p..(Len(text) + 1) : q > Len(text) \/ ~IsSpace(text[q])})

\* (feature\s*id|id) matched at p: the position after it, or 0
KeywordEnd(text, p) ==
    IF p + 1 <= Len(text) /\ Lower(SubSeq(text, p, p + 1)) = <<105, 100>>
    THEN p + 2
    ELSE IF p + 6 <= Len(text)
            /\ Lower(SubSeq(text, p, p + 6)) = <<102, 101, 97, 116, 117, 114, 101>>
         THEN LET a == SkipWs(text, p + 7)
              IN  IF a + 1 <= Len(text) /\ Lower(SubSeq(text, a, a + 1)) = <<105, 100>>
                  THEN a + 2
                  ELSE 0
         ELSE 0

\* \b(feature\s*id|id)\s*[:#]?\s*(\d{3,})\b matched at p: group 2, or ""
McIdAt(text, p) ==
    IF ~(IsWord(text[p]) /\ (p = 1 \/ ~IsWord(text[p - 1]))) THEN <<>>
    ELSE LET q == KeywordEnd(text, p)
         IN  IF q = 0 THEN <<>>
             ELSE LET a1 == SkipWs(text, q)
                      a2 == IF a1 <= Len(text) /\ text[a1] \in {58, 35}
                            THEN a1 + 1 ELSE a1
                  IN  DigitsAt(text, SkipWs(text, a2))

\* message_center._FEATURE_ID_PAT, searched in text with re.I: group 2 of
\* the first match, or ""
mc_FEATURE_ID_PAT(text) ==
    LET starts == {p \in DOMAIN text : McIdAt(text, p) # <<>>}
    IN  IF starts = {} THEN <<>> ELSE McIdAt(text, Min(starts))

Row(tds, href) == [tds |-> tds, href |-> href]
Table(hdrs, rows) == [hdrs |-> hdrs, rows |-> rows]
Card(title, url, text, summary, inner) ==
    [title |-> title, url |-> url, text |-> text, summary |-> summary,
     inner |-> inner]

\* the dict a parser emits; a key it leaves out reads as None, written <<>>
ParsedRecord(rid, title, url, products, summary, m) ==
    [roadmap_id |-> rid, title |-> title, url |-> url, products |-> products,
     summary |-> summary, month |-> m]

RECURSIVE Concat(_)
Concat(ss) == IF ss = <<>> THEN <<>> ELSE Head(ss) \o Concat(Tail(ss))

\* _to_text(tr) = tr.get_text(strip=True): the stripped texts of the row,
\* joined without a separator
RowText(row) == Concat(row.tds)

\* _header_map(table).get(name, -1): index of the first th with that key
HdrIndex(hdrs, name) ==
    LET hits == {k \in DOMAIN hdrs : hdrs[k] = name}
    IN  IF hits = {} THEN -1 ELSE Min(hits) - 1

_cell_text(tds, idx) == IF 0 <= idx /\ idx < Len(tds) THEN tds[idx + 1] ELSE <<>>

\* get(name) inside the row loop
Get(hdrs, tds, name) ==
    LET idx == HdrIndex(hdrs, name)
    IN  IF idx >= 0 THEN _cell_text(tds, idx) ELSE <<>>

\* _find_table_candidates: the th keys name a feature id, title or description
IsCandidate(t) ==
    \E k \in DOMAIN t.hdrs : t.hdrs[k] \in {"feature id", "title", "description"}

\* "https://www.microsoft.com/microsoft-365/roadmap?featureid="
RoadmapUrl ==
    <<104, 116, 116, 112, 115, 58, 47, 47, 119, 119, 119, 46, 109, 105, 99, 114,
      111, 115, 111, 102, 116, 46, 99, 111, 109, 47, 109, 105, 99, 114, 111, 115,
      111, 102, 116, 45, 51, 54, 53, 47, 114, 111, 97, 100, 109, 97, 112, 63, 102,
      101, 97, 116, 117, 114, 101, 105, 100, 61>>

\* parse_roadmap_html, one table row: the id is the feature id cell, else a
\* number found in the row's text; the url is the url cell, else the row's
\* first link, else rebuilt from the id
RoadmapRowDict(hdrs, row, m) ==
    LET cell == Get(hdrs, row.tds, "feature id")
        rid == IF cell # <<>> THEN cell ELSE _FEATURE_ID_PAT(RowText(row))
        title == PyOr(Get(hdrs, row.tds, "title"), _cell_text(row.tds, 0))
        link == PyOr(Get(hdrs, row.tds, "url"), row.href)
        url == IF link = <<>> /\ rid # <<>> THEN RoadmapUrl \o rid ELSE link
    IN  ParsedRecord(rid, title, url, Get(hdrs, row.tds, "products"),
                     Get(hdrs, row.tds, "description"), m)

\* if d.get("title") or d.get("url"): items.append(d)
HasTitleOrUrl(d) == d.title # <<>> \/ d.url # <<>>

\* for tr in table rows with td cells: the accepted dicts, in row order
RoadmapTableDicts(t, m) ==
    LET rows == SelectSeq(t.rows, LAMBDA r : r.tds # <<>>)
    IN  SelectSeq([k \in DOMAIN rows |-> RoadmapRowDict(t.hdrs, rows[k], m)],
                  HasTitleOrUrl)

\* the fallback is entered whatever the tables yielded
TablesReturn_Never(its) == FALSE

\* if items: return items
TablesReturn(its) == its # <<>>

\* for table in _find_table_candidates(soup): skip a table without header
\* map, append its accepted rows, return as soon as items is non-empty
RECURSIVE RoadmapTableLoop(_, _, _)
RoadmapTableLoop(tables, its, m) ==
    IF tables = <<>> THEN [items |-> its, returned |-> FALSE]
    ELSE LET t == Head(tables)
         IN  IF ~IsCandidate(t) \/ t.hdrs = <<>>
             THEN RoadmapTableLoop(Tail(tables), its, m)
             ELSE LET its2 == its \o RoadmapTableDicts(t, m)
                  IN  IF TablesReturn(its2)
                      THEN [items |-> its2, returned |-> TRUE]
                      ELSE RoadmapTableLoop(Tail(tables), its2, m)

\* parse_roadmap_html, one card-like container: the id is read from the
\* link's featureid= parameter, else from a number in the card's text
RoadmapCardDict(card, m) ==
    LET rid == PyOr(FeatureIdInUrl(card.url), _FEATURE_ID_PAT(card.text))
    IN  ParsedRecord(rid, card.title, card.url, <<>>, card.summary, m)

\* message_center._find_cards: the card-like containers that hold a link
\* or a paragraph
_find_cards(s) == SelectSeq(s.cards, LAMBDA c : c.inner)

\* message_center._find_feature_id(card, url)
_find_feature_id(card, url) == PyOr(mc_FEATURE_ID_PAT(card.text), FeatureIdInUrl(url))

MessageCenterCardDict(card, m) ==
    ParsedRecord(_find_feature_id(card, card.url), card.title, card.url, <<>>,
                 card.summary, m)

\* _safe_find(table, "a", href=True): the first link of the table
FirstHref(rows) ==
    LET linked == SelectSeq(rows, LAMBDA r : r.href # <<>>)
    IN  IF linked = <<>> THEN <<>> ELSE linked[1].href

\* parse_message_center_html, one row of the table fallback
MessageCenterRowDict(t, row, m) ==
    ParsedRecord(mc_FEATURE_ID_PAT(RowText(row)), _cell_text(row.tds, 0),
                 PyOr(row.href, FirstHref(t.rows)), <<>>, _cell_text(row.tds, 1), m)

\* if d: items.append(d) -- any key at all
NonEmptyDict(d) ==
    \/ d.title # <<>> \/ d.summary # <<>> \/ d.roadmap_id # <<>>
    \/ d.url # <<>> \/ d.month # <<>>

MessageCenterTableDicts(t, m) ==
    LET rows == SelectSeq(t.rows, LAMBDA r : r.tds # <<>>)
    IN  SelectSeq([k \in DOMAIN rows |-> MessageCenterRowDict(t, rows[k], m)],
                  NonEmptyDict)

RECURSIVE MessageCenterTableLoop(_, _, _)
MessageCenterTableLoop(tables, its, m) ==
    IF tables = <<>> THEN its
    ELSE MessageCenterTableLoop(Tail(tables),
                                its \o MessageCenterTableDicts(Head(tables), m), m)

\* Cell texts "T", "L", "S", "482", "id 482", the links "u" and
\* "h?featureid=482", and the month "M"
RowUniverse ==
    {Row(<<<<84>>, <<52, 56, 50>>>>, <<>>),
     Row(<<<<84>>, <<76>>>>,
         <<104, 63, 102, 101, 97, 116, 117, 114, 101, 105, 100, 61, 52, 56, 50>>),
     Row(<<<<>>, <<>>>>, <<>>),
     Row(<<<<>>, <<83>>>>, <<>>),
     Row(<<<<105, 100, 32, 52, 56, 50>>, <<83>>>>, <<117>>)}

\* th keys as _normalize_hdr returns them; the last layout names no
\* feature id, title or description
HdrLayouts ==
    {<<"feature id", "title">>, <<"title", "description">>, <<"title", "url">>,
     <<"status", "audience">>}

\* a card with heading, paragraph and roadmap link; an empty container; a
\* container holding only an anchor without href
CardUniverse ==
    {Card(<<84>>,
          <<104, 63, 102, 101, 97, 116, 117, 114, 101, 105, 100, 61, 52, 56, 50>>,
          <<84, 83>>, <<83>>, TRUE),
     Card(<<>>, <<>>, <<>>, <<>>, FALSE),
     Card(<<66>>, <<>>, <<66>>, <<>>, TRUE)}

Months == {<<>>, <<77>>}

\* an HTML export: two tables sharing up to MaxRows rows, and up to
\* MaxCards card-like containers
IsSoup(s) ==
    \E l \in SeqsUpTo(RowUniverse, MaxRows), k \in 0..MaxRows,
       h1 \in HdrLayouts, h2 \in HdrLayouts,
       cs \in SeqsUpTo(CardUniverse, MaxCards) :
        /\ k <= Len(l)
        /\ s = [tables |-> <<Table(h1, SubSeq(l, 1, k)),
                             Table(h2, SubSeq(l, k + 1, Len(l)))>>,
                cards |-> cs]

FileStates == {"missing", "unreadable", "empty", "html"}

\* build() is not under way
BuildIdle ==
    /\ inputs = <<<<>>, <<>>>>
    /\ assets = [cover |-> FALSE, separator |-> FALSE]
    /\ slides = <<>>
    /\ exc = "none"
    /\ Idle

coreVars == <<inputs, assets, slides, mergeVars, saveVars>>

InitParse ==
    /\ pc = "parse_start"
    /\ BuildIdle
    /\ parser \in {"roadmap", "message_center"}
    /\ file \in FileStates
    /\ \/ file = "html" /\ IsSoup(soup)
       \/ file # "html" /\ soup = EmptySoup
    /\ month \in Months
    /\ dicts = <<>>
    /\ ran = {}
    /\ item = NoItem /\ raw = NoItem
    /\ on_disk = <<TRUE, TRUE>> /\ exit_code = NoExit
    /\ IdleApp

\* p = Path(html_path); if not p.exists(): return []
\* html = p.read_text(...); soup = BeautifulSoup(html, "lxml")
ParseOpen ==
    /\ pc = "parse_start"
    /\ IF file = "missing" THEN pc' = "parse_returned" /\ UNCHANGED exc
       ELSE IF file = "unreadable"
            THEN pc' = "raised" /\ exc' = "PermissionError"
            ELSE pc' = "parse_soup" /\ UNCHANGED exc
    /\ UNCHANGED <<coreVars, parseVars, normVars, cliVars, appVars>>

\* parse_roadmap_html: the table-based extraction
RoadmapTables ==
    /\ pc = "parse_soup"
    /\ parser = "roadmap"
    /\ LET r == RoadmapTableLoop(soup.tables, dicts, month)
       IN  /\ dicts' = r.items
           /\ pc' = IF r.returned THEN "parse_returned" ELSE "roadmap_cards"
    /\ ran' = ran \cup {"table"}
    /\ UNCHANGED <<coreVars, exc, parser, file, soup, month, normVars, cliVars, appVars>>

\* parse_roadmap_html: the fallback over card-like containers
RoadmapCards ==
    /\ pc = "roadmap_cards"
    /\ dicts' = dicts \o SelectSeq([k \in DOMAIN soup.cards |->
                                       RoadmapCardDict(soup.cards[k], month)],
                                   HasTitleOrUrl)
    /\ ran' = ran \cup {"cards"}
    /\ pc' = "parse_returned"
    /\ UNCHANGED <<coreVars, exc, parser, file, soup, month, normVars, cliVars, appVars>>

\* parse_message_center_html: cards = _find_cards(soup); if cards: ... return
MessageCenterCards ==
    /\ pc = "parse_soup"
    /\ parser = "message_center"
    /\ LET cards == _find_cards(soup)
       IN  IF cards # <<>>
           THEN /\ dicts' = dicts \o SelectSeq([k \in DOMAIN cards |->
                                         MessageCenterCardDict(cards[k], month)],
                                     HasTitleOrUrl)
                /\ ran' = ran \cup {"cards"}
                /\ pc' = "parse_returned"
           ELSE /\ pc' = "mc_tables"
                /\ UNCHANGED <<dicts, ran>>
    /\ UNCHANGED <<coreVars, exc, parser, file, soup, month, normVars, cliVars, appVars>>

\* parse_message_center_html: the fallback over every table of the document
MessageCenterTables ==
    /\ pc = "mc_tables"
    /\ dicts' = MessageCenterTableLoop(soup.tables, dicts, month)
    /\ ran' = ran \cup {"table"}
    /\ pc' = "parse_returned"
    /\ UNCHANGED <<coreVars, exc, parser, file, soup, month, normVars, cliVars, appVars>>

NextParse ==
    \/ ParseOpen
    \/ RoadmapTables
    \/ RoadmapCards
    \/ MessageCenterCards
    \/ MessageCenterTables

SpecParse == InitParse /\ [][NextParse]_vars

-----------------------------------------------------------------------------
(* normalize_item(i) and the helpers it calls *)

\* \s of re: the ASCII whitespace and the no-break space
IsReSpace(c) == c \in {9, 10, 11, 12, 13, 32, 160}

\* re.sub(r"\s+", " ", s): every run of whitespace becomes one space
Collapse(s) ==
    LET marked == [k \in DOMAIN s |->
                      IF ~IsReSpace(s[k]) THEN s[k]
                      ELSE IF k > 1 /\ IsReSpace(s[k - 1]) THEN -1 ELSE 32]
    IN  SelectSeq(marked, LAMBDA c : c # -1)

\* _clean(s): "" for None or "", else whitespace collapsed and stripped
_clean(s) == Strip(Collapse(s))

\* clamp(s, max_len): s[:max_len - 1].rstrip() + "…" when s is too long
clamp(s, max_len) ==
    IF Len(s) <= max_len THEN s
    ELSE RStrip(SubSeq(s, 1, IF max_len - 1 > 0 THEN max_len - 1 ELSE 0)) \o <<8230>>

\* key in k, for two strings
IsSubstring(key, k) ==
    \E p \in 1..(Len(k) - Len(key) + 1) : SubSeq(k, p, p + Len(key) - 1) = key

\* PHASE_TO_STATUS_MAP, in the order the dict lists its entries
PHASE_TO_STATUS_MAP ==
    <<[key |-> <<105, 110, 32, 100, 101, 118, 101, 108, 111, 112, 109, 101, 110, 116>>,
       val |-> <<73, 110, 32, 100, 101, 118, 101, 108, 111, 112, 109, 101, 110, 116>>],
      [key |-> <<114, 111, 108, 108, 105, 110, 103, 32, 111, 117, 116>>,
       val |-> <<82, 111, 108, 108, 105, 110, 103, 32, 111, 117, 116>>],
      [key |-> <<108, 97, 117, 110, 99, 104, 101, 100>>,
       val |-> <<76, 97, 117, 110, 99, 104, 101, 100>>],
      [key |-> <<112, 114, 101, 118, 105, 101, 119>>,
       val |-> <<80, 114, 101, 118, 105, 101, 119>>],
      [key |-> <<99, 97, 110, 99, 101, 108, 108, 101, 100>>,
       val |-> <<67, 97, 110, 99, 101, 108, 108, 101, 100>>],
      [key |-> <<100, 101, 108, 97, 121, 101, 100>>,
       val |-> <<68, 101, 108, 97, 121, 101, 100>>]>>

\* map_phase_to_status: the value of the first entry whose key occurs in the
\* cleaned, lowercased text; else the cleaned text
map_phase_to_status(phase_text) ==
    LET k == Lower(_clean(phase_text))
        hits == {n \in DOMAIN PHASE_TO_STATUS_MAP :
                    IsSubstring(PHASE_TO_STATUS_MAP[n].key, k)}
    IN  IF hits = {} THEN _clean(phase_text)
        ELSE PHASE_TO_STATUS_MAP[Min(hits)].val

\* " ".join(l)
RECURSIVE JoinSpace(_)
JoinSpace(l) ==
    IF l = <<>> THEN <<>>
    ELSE IF Len(l) = 1 THEN l[1]
    ELSE l[1] \o <<32>> \o JoinSpace(Tail(l))

\* normalize_item: title cleaned and clamped; status taken from phases when
\* it is blank; product put into products when the list is blank, or in
\* front of it when the list does not hold it
normalize_item(it) ==
    [title |-> clamp(_clean(it.title), TitleMax),
     status |-> IF _clean(it.status) = <<>> /\ _clean(it.phases) # <<>>
                THEN map_phase_to_status(it.phases)
                ELSE it.status,
     phases |-> it.phases,
     product |-> it.product,
     products |-> IF _clean(it.product) # <<>> /\ _clean(JoinSpace(it.products)) = <<>>
                  THEN <<it.product>>
                  ELSE IF _clean(it.product) # <<>> /\ it.product \notin Range(it.products)
                       THEN <<it.product>> \o it.products
                       ELSE it.products]

\* Item fields: titles "", "a", " a  b" and one of TitleMax + 1 characters;
\* status "", "Launched", " "; phases "", "Beta", "PREVIEW launched", " x",
\* "In  development"; product "", "P"; products over "X" and "P"
ItemUniverse ==
    [title : {<<>>, <<97>>, <<32, 97, 32, 32, 98>>, LongTitle},
     status : {<<>>, <<76, 97, 117, 110, 99, 104, 101, 100>>, <<32>>},
     phases : {<<>>, <<66, 101, 116, 97>>,
               <<80, 82, 69, 86, 73, 69, 87, 32, 108, 97, 117, 110, 99, 104, 101, 100>>,
               <<32, 120>>,
               <<73, 110, 32, 32, 100, 101, 118, 101, 108, 111, 112, 109, 101, 110, 116>>},
     product : {<<>>, <<80>>},
     products : {<<>>, <<<<88>>>>, <<<<80>>, <<88>>>>, <<<<88>>, <<80>>>>}]

InitNormalize ==
    /\ pc = "norm_start"
    /\ BuildIdle
    /\ parser = "roadmap" /\ file = "missing" /\ soup = EmptySoup /\ month = <<>>
    /\ dicts = <<>> /\ ran = {}
    /\ item \in ItemUniverse
    /\ raw = item
    /\ on_disk = <<TRUE, TRUE>> /\ exit_code = NoExit
    /\ IdleApp

\* i = normalize_item(i)
NormalizeItem ==
    /\ pc = "norm_start"
    /\ item' = normalize_item(item)
    /\ pc' = "normalized"
    /\ UNCHANGED <<coreVars, exc, parseVars, raw, cliVars, appVars>>

NextNormalize == NormalizeItem

SpecNormalize == InitNormalize /\ [][NextNormalize]_vars

-----------------------------------------------------------------------------
(* The command line: generate_deck.py's main(), run on its own or by the    *)
(* wrapper run.ps1 after it has resolved the requested input paths          *)

\* the process ends with status 0 when the script returns
ExitCode_Zero(e) == 0

\* python's exit status: 1 after the traceback of an uncaught exception, 0
\* when main() returns
ExitCode(e) == IF e = "none" THEN 0 ELSE 1

\* what the parsers return for the two requested paths: a path that is not
\* on disk gives no record
IsCliInput(ins, disk) ==
    /\ ins \in [1..2 -> SeqsUpTo(RecordUniverse, 1)]
    /\ \A k \in 1..2 : ~disk[k] => ins[k] = <<>>

\* foreach ($x in ...) { $r = _Resolve-PathOrNull $x; if ($r) { $inputs += $r } }
RECURSIVE KeepResolved(_, _)
KeepResolved(seq, disk) ==
    IF seq = <<>> THEN <<>>
    ELSE (IF Head(disk) THEN <<Head(seq)>> ELSE <<>>)
         \o KeepResolved(Tail(seq), Tail(disk))

InitCli ==
    /\ pc \in {"ps1_inputs", "cli_start"}
    /\ on_disk \in [1..2 -> BOOLEAN]
    /\ IsCliInput(inputs, on_disk)
    /\ assets \in AssetConfigs
    /\ slides = <<>>
    /\ exc = "none"
    /\ Idle
    /\ parser = "roadmap" /\ file = "missing" /\ soup = EmptySoup /\ month = <<>>
    /\ dicts = <<>> /\ ran = {}
    /\ item = NoItem /\ raw = NoItem
    /\ exit_code = NoExit
    /\ IdleApp

\* run.ps1: each requested input is kept when it resolves to an existing
\* path and skipped with a warning otherwise; with none left the script
\* throws, else it goes on to run generate_deck.py on the resolved inputs
ResolveInputs ==
    /\ pc = "ps1_inputs"
    /\ LET resolved == KeepResolved(inputs, on_disk)
       IN  IF resolved = <<>>
           THEN /\ exc' = "RuntimeException"
                /\ exit_code' = 1
                /\ pc' = "exited"
                /\ UNCHANGED <<inputs, on_disk>>
           ELSE /\ inputs' = resolved
                /\ on_disk' = KeepResolved(on_disk, on_disk)
                /\ pc' = "cli_start"
                /\ UNCHANGED <<exc, exit_code>>
    /\ UNCHANGED <<assets, slides, mergeVars, saveVars, parseVars, normVars, appVars>>

\* main(): parse the arguments, build(...); build() starts with the cover
\* slide, and an exception that leaves it ends the process
Main ==
    /\ pc = "cli_start"
    /\ LET r == add_cover_slide(slides, assets)
       IN  /\ slides' = r.slides
           /\ exc' = r.exc
           /\ IF r.exc # "none"
              THEN pc' = "exited" /\ exit_code' = ExitCode(r.exc)
              ELSE pc' = "agenda" /\ UNCHANGED exit_code
    /\ UNCHANGED <<inputs, assets, mergeVars, saveVars, parseVars, normVars, on_disk, appVars>>

NextCli ==
    \/ ResolveInputs
    \/ Main

SpecCli == InitCli /\ [][NextCli]_vars

-----------------------------------------------------------------------------
(* The bot server: POST /api/ask, Dispatcher and its queue *)

\* const MAX_RETRIES = Number(process.env.MAX_RETRIES || 6)
MAX_RETRIES == 6

\* this.queue.dequeue(16)
DequeueMax == 16

TopicId == <<84>>    \* "T"

\* an AskTask, as far as the queue and the dispatcher look at it
AskTask(id, tries, mid) == [id |-> id, attempts |-> tries, mid |-> mid]

\* a task held by the queue: the element of MemoryQueue.q (mid 0, always
\* visible), or a message of the storage queue with its message id
Queued(t, mid, visible) ==
    [id |-> t.id, attempts |-> t.attempts, mid |-> mid, visible |-> visible]

\* MemoryQueue.enqueue: this.q.push(t)
\* StorageQueue.enqueue: this.client.sendMessage(JSON.stringify(t))
QueueEnqueue(k, q, t, n) ==
    IF k = "storage" THEN Append(q, Queued(t, n + 1, TRUE))
    ELSE Append(q, Queued(t, 0, TRUE))

\* the number of messages sent to the storage queue after an enqueue
SendsAfter(k, n) == IF k = "storage" THEN n + 1 ELSE n

\* the first max visible elements of the queue, as positions
RECURSIVE VisibleUpTo(_, _, _)
VisibleUpTo(q, p, max) ==
    IF p > Len(q) \/ max = 0 THEN {}
    ELSE IF q[p].visible THEN {p} \cup VisibleUpTo(q, p + 1, max - 1)
         ELSE VisibleUpTo(q, p + 1, max)

Positions(q, S) == SelectSeq([p \in DOMAIN q |-> p], LAMBDA p : p \in S)

\* MemoryQueue.dequeue: this.q.splice(0, Math.min(max, this.q.length))
\* StorageQueue.dequeue: receiveMessages({numberOfMessages, visibilityTimeout}),
\* each message parsed and given its _messageId and _popReceipt
QueueDequeue(k, q, max) ==
    LET got == VisibleUpTo(q, 1, max)
        ps == Positions(q, got)
    IN  [batch |-> [j \in DOMAIN ps |->
                       AskTask(q[ps[j]].id, q[ps[j]].attempts, q[ps[j]].mid)],
         queue |-> IF k = "storage"
                   THEN [p \in DOMAIN q |->
                           IF p \in got THEN [q[p] EXCEPT !.visible = FALSE]
                           ELSE q[p]]
                   ELSE SelectSeq(q, LAMBDA m : FALSE) \o
                        [j \in 1..(Len(q) - Len(ps)) |-> q[j + Len(ps)]]]

\* MemoryQueue.complete: nothing
\* StorageQueue.complete: deleteMessage(t._messageId, t._popReceipt)
QueueComplete(k, q, t) ==
    IF k = "storage" /\ t.mid # 0
    THEN SelectSeq(q, LAMBDA m : m.mid # t.mid)
    ELSE q

\* (this.queue as any).deadletter?.(t): MemoryQueue has no deadletter
\* StorageQueue.deadletter: this.dlq.sendMessage(...)
QueueDeadletter(k, d, t) ==
    IF k = "storage" THEN Append(d, t) ELSE d

\* Dispatcher.deliver: throws without a conversation reference or when the
\* adapter fails to send the card
Deliver(ref, sent) == IF ref /\ sent THEN "ok" ELSE "Error"

RemoveAt(s, k) == [j \in 1..(Len(s) - 1) |-> IF j < k THEN s[j] ELSE s[j + 1]]

InitBot ==
    /\ pc = "serving"
    /\ BuildIdle
    /\ parser = "roadmap" /\ file = "missing" /\ soup = EmptySoup /\ month = <<>>
    /\ dicts = <<>> /\ ran = {}
    /\ item = NoItem /\ raw = NoItem
    /\ on_disk = <<TRUE, TRUE>> /\ exit_code = NoExit
    /\ queue_kind \in {"memory", "storage"}
    /\ queue = <<>> /\ batch = <<>> /\ timers = <<>> /\ dlq = <<>>
    /\ sends = 0 /\ asked = <<>> /\ log = NoLog
    /\ IdleTab /\ IdleDraw /\ IdleUnit

botCore == <<coreVars, exc, parseVars, normVars, cliVars, tabVars, drawVars, unitVars,
            pc, queue_kind>>

\* app.post('/api/ask'): 400 without topicId or card, else
\* Dispatcher.enqueue with the header's key or the body's, and 202
PostApiAsk ==
    /\ pc = "serving"
    /\ \E header \in {<<>>, IdemKey}, idempotencyKey \in {<<>>, IdemKey},
          topicId \in {<<>>, TopicId}, card \in BOOLEAN :
          LET headerKey == PyOr(header, idempotencyKey)
              id == PyOr(headerKey, Uuid(Len(asked) + 1))
              ask == AskTask(id, 0, 0)
          IN  IF topicId = <<>> \/ ~card
              THEN UNCHANGED <<queue, sends, asked>>
              ELSE /\ Len(asked) < MaxAsks
                   /\ sends < MaxSends
                   /\ queue' = QueueEnqueue(queue_kind, queue, ask, sends)
                   /\ sends' = SendsAfter(queue_kind, sends)
                   /\ asked' = Append(asked, id)
    /\ UNCHANGED <<botCore, batch, timers, dlq, log>>

\* Dispatcher.drain: const batch = await this.queue.dequeue(16)
DrainDequeue ==
    /\ pc = "serving"
    /\ batch = <<>>
    /\ LET r == QueueDequeue(queue_kind, queue, DequeueMax)
       IN  /\ batch' = r.batch
           /\ queue' = r.queue
    /\ UNCHANGED <<botCore, timers, dlq, sends, asked, log>>

\* Dispatcher.drain, for the next task t of the batch:
\* await this.deliver(t); await this.queue.complete(t)
DrainDelivered ==
    /\ pc = "serving"
    /\ batch # <<>>
    /\ Delivers(log) < MaxLog
    /\ LET t == Head(batch)
       IN  /\ Deliver(TRUE, TRUE) = "ok"
           /\ log' = [log EXCEPT ![t.id] =
                        Append(@, [ok |-> TRUE, attempts |-> t.attempts])]
           /\ queue' = QueueComplete(queue_kind, queue, t)
           /\ batch' = Tail(batch)
    /\ UNCHANGED <<botCore, timers, dlq, sends, asked>>

\* Dispatcher.drain, for the next task t of the batch, when deliver throws:
\* t.attempts += 1; dead-letter at MAX_RETRIES, else setTimeout(enqueue)
DrainFailed ==
    /\ pc = "serving"
    /\ batch # <<>>
    /\ Delivers(log) < MaxLog
    /\ \E ref \in BOOLEAN, sent \in BOOLEAN :
          /\ Deliver(ref, sent) # "ok"
          /\ LET t == [Head(batch) EXCEPT !.attempts = @ + 1]
             IN  /\ log' = [log EXCEPT ![t.id] =
                              Append(@, [ok |-> FALSE, attempts |-> t.attempts])]
                 /\ IF t.attempts >= MAX_RETRIES
                    THEN /\ dlq' = QueueDeadletter(queue_kind, dlq, t)
                         /\ UNCHANGED timers
                    ELSE /\ timers' = Append(timers, t)
                         /\ UNCHANGED dlq
                 /\ batch' = Tail(batch)
    /\ UNCHANGED <<botCore, queue, sends, asked>>

\* setTimeout(async () => { await this.queue.enqueue(t); }, delay)
RetryTimer ==
    /\ pc = "serving"
    /\ sends < MaxSends
    /\ \E k \in DOMAIN timers :
          /\ queue' = QueueEnqueue(queue_kind, queue, timers[k], sends)
          /\ sends' = SendsAfter(queue_kind, sends)
          /\ timers' = RemoveAt(timers, k)
    /\ UNCHANGED <<botCore, batch, dlq, asked, log>>

\* visibilityTimeout: 30 - a received message that was not deleted shows
\* up in the storage queue again
VisibilityTimeout ==
    /\ pc = "serving"
    /\ queue_kind = "storage"
    /\ \E p \in DOMAIN queue :
          /\ ~queue[p].visible
          /\ \A j \in DOMAIN batch : batch[j].mid # queue[p].mid
          /\ queue' = [queue EXCEPT ![p].visible = TRUE]
    /\ UNCHANGED <<botCore, batch, timers, dlq, sends, asked, log>>

NextBot ==
    \/ PostApiAsk
    \/ DrainDequeue
    \/ DrainDelivered
    \/ DrainFailed
    \/ RetryTimer
    \/ VisibilityTimeout

SpecBot == InitBot /\ [][NextBot]_vars

-----------------------------------------------------------------------------
(* The meeting tab: topics timeline and the local ask queue *)

\* const PREVENT_BACKWARDS = true; const DEDUPE_SAME_TOPIC = false
PREVENT_BACKWARDS == TRUE
DEDUPE_SAME_TOPIC == FALSE

\* the ids of seedTopics, in order
seedTopics == <<"482601", "MC999999", "AZ-12345">>

topics == seedTopics

\* indexOfTopic: topics.findIndex, counted from 1, and 0 when there is none
indexOfTopic(id) ==
    IF \E k \in DOMAIN topics : topics[k] = id
    THEN Min({k \in DOMAIN topics : topics[k] = id})
    ELSE 0

\* released.includes(id)
Includes(rel, id) == \E k \in DOMAIN rel : rel[k] = id

\* topics.find((t) => !released.includes(t.id)), or NoTopic
nextUnreleased(rel) ==
    IF \E k \in DOMAIN topics : ~Includes(rel, topics[k])
    THEN topics[Min({k \in DOMAIN topics : ~Includes(rel, topics[k])})]
    ELSE NoTopic

\* topics.filter((t) => released.includes(t.id))
releasedTopics(rel) == SelectSeq(topics, LAMBDA t : Includes(rel, t))

\* topics.find((t) => t.id === currentId) || releasedTopics.at(-1) || null
currentTopic(rel, cur) ==
    IF indexOfTopic(cur) # 0 THEN cur
    ELSE IF releasedTopics(rel) # <<>>
         THEN releasedTopics(rel)[Len(releasedTopics(rel))]
         ELSE NoTopic

\* new Set([...released, id]) when DEDUPE_SAME_TOPIC, else [...released, id]
NewReleased(rel, id) ==
    IF DEDUPE_SAME_TOPIC /\ Includes(rel, id) THEN rel ELSE Append(rel, id)

\* pinTopic: whether the pin is ignored as a backward jump
BackwardJump_Never(cur, id) == FALSE

BackwardJump(cur, id) ==
    PREVENT_BACKWARDS /\ cur # NoTopic /\ indexOfTopic(id) < indexOfTopic(cur)

\* SharedState.set(prop, value), as a change of the stored object
SetReleased(st, v) == [st EXCEPT !.releasedTopicIds = v]
SetCurrent(st, v) == [st EXCEPT !.currentTopicId = v]
SetAskQueue(st, q) == [st EXCEPT !.pendingAskQueue = q]

\* readAskQueue(s)
readAskQueue(st) == st.pendingAskQueue

\* enqueueAsk(s, item): setAskQueue(s, [...readAskQueue(s), item])
enqueueAsk(st, it) == SetAskQueue(st, Append(readAskQueue(st), it))

\* makeIdempotencyKey: the n-th key made in the tab
makeIdempotencyKey(n) == n

AskItem(topicId, key) == [topicId |-> topicId, idempotencyKey |-> key]

\* flushAskQueue(s) up to its first fetch: nothing to do with an empty
\* queue or without a meeting or user context
StartFlush(st, ctx) ==
    IF readAskQueue(st) = <<>> \/ ~ctx THEN NoFlush
    ELSE [q |-> readAskQueue(st), at |-> 1, remaining |-> <<>>]

InitTab ==
    /\ pc = "tab"
    /\ BuildIdle
    /\ parser = "roadmap" /\ file = "missing" /\ soup = EmptySoup /\ month = <<>>
    /\ dicts = <<>> /\ ran = {}
    /\ item = NoItem /\ raw = NoItem
    /\ on_disk = <<TRUE, TRUE>> /\ exit_code = NoExit
    /\ IdleBot /\ IdleDraw /\ IdleUnit
    /\ context \in BOOLEAN
    /\ released = <<>> /\ currentId = NoTopic /\ shared = FALSE
    /\ storage = FreshStorage /\ flush = NoFlush
    /\ posted = {} /\ enqueued = {}

tabCore == <<coreVars, exc, parseVars, normVars, cliVars, botVars, drawVars, unitVars,
            pc, context>>

\* useEffect, once initTeamsShim has resolved: the SharedState is made, the
\* onChange listener copies the stored state, and the queue is flushed
Mount ==
    /\ pc = "tab"
    /\ ~shared
    /\ shared' = TRUE
    /\ released' = storage.releasedTopicIds
    /\ currentId' = storage.currentTopicId
    /\ flush' = StartFlush(storage, context)
    /\ UNCHANGED <<tabCore, storage, posted, enqueued>>

\* the page is loaded again: localStorage stays, the component starts over
Reload ==
    /\ pc = "tab"
    /\ shared
    /\ shared' = FALSE
    /\ released' = <<>>
    /\ currentId' = NoTopic
    /\ flush' = NoFlush
    /\ UNCHANGED <<tabCore, storage, posted, enqueued>>

\* releaseNext; each shared.set calls the onChange listener
ReleaseNext ==
    /\ pc = "tab"
    /\ nextUnreleased(released) # NoTopic
    /\ LET next == nextUnreleased(released)
           newReleased == NewReleased(released, next)
           st == SetCurrent(SetReleased(storage, newReleased), next)
       IN  IF shared
           THEN /\ storage' = st
                /\ released' = st.releasedTopicIds
                /\ currentId' = st.currentTopicId
           ELSE /\ released' = newReleased
                /\ currentId' = next
                /\ UNCHANGED storage
    /\ UNCHANGED <<tabCore, shared, flush, posted, enqueued>>

\* the timeline button of a released topic: isReleased && pinTopic(t.id)
PinTopic ==
    /\ pc = "tab"
    /\ \E k \in DOMAIN topics :
          LET id == topics[k]
          IN  /\ Includes(released, id)
              /\ IF BackwardJump(currentId, id)
                 THEN UNCHANGED <<currentId, released, storage>>
                 ELSE IF shared
                      THEN /\ storage' = SetCurrent(storage, id)
                           /\ currentId' = id
                           /\ released' = storage.releasedTopicIds
                      ELSE /\ currentId' = id
                           /\ UNCHANGED <<released, storage>>
    /\ UNCHANGED <<tabCore, shared, flush, posted, enqueued>>

\* the topics whose card, with its Ask button, is on the page
Shown == {t \in {topics[k] : k \in DOMAIN topics} :
             Includes(released, t) \/ t = currentTopic(released, currentId)}

\* onChange after a shared.set: the component takes the stored state
Notified(st) ==
    /\ released' = (IF shared THEN st.releasedTopicIds ELSE released)
    /\ currentId' = (IF shared THEN st.currentTopicId ELSE currentId)

\* onAsk without a meeting or user context, or when the fetch fails:
\* the card is put on the local queue
OnAskQueued ==
    /\ pc = "tab"
    /\ Cardinality(posted \cup enqueued) < MaxAskItems
    /\ \E t \in Shown, failed \in BOOLEAN :
          /\ ~context \/ failed
          /\ LET key == makeIdempotencyKey(Cardinality(posted \cup enqueued) + 1)
                 st == enqueueAsk(storage, AskItem(t, key))
             IN  /\ storage' = st
                 /\ enqueued' = enqueued \cup {key}
                 /\ Notified(st)
    /\ UNCHANGED <<tabCore, shared, flush, posted>>

\* onAsk with a context when the fetch succeeds: the card is sent, and
\* flushAskQueue(shared) is called
OnAskSent ==
    /\ pc = "tab"
    /\ context
    /\ Cardinality(posted \cup enqueued) < MaxAskItems
    /\ \E t \in Shown :
          LET key == makeIdempotencyKey(Cardinality(posted \cup enqueued) + 1)
          IN  /\ posted' = posted \cup {key}
              /\ flush' = IF shared /\ flush = NoFlush
                          THEN StartFlush(storage, context)
                          ELSE flush
    /\ UNCHANGED <<tabCore, released, currentId, shared, storage, enqueued>>

\* window.setInterval(() => { flushAskQueue(s); }, 8000), and on focus
FlushTimer ==
    /\ pc = "tab"
    /\ shared
    /\ flush = NoFlush
    /\ flush' = StartFlush(storage, context)
    /\ UNCHANGED <<tabCore, released, currentId, shared, storage, posted, enqueued>>

\* flushAskQueue: the fetch of the next item of q resolves or fails; after
\* the last one, setAskQueue(s, remaining)
FlushFetch ==
    /\ pc = "tab"
    /\ flush # NoFlush
    /\ \E ok \in BOOLEAN :
          LET it == flush.q[flush.at]
              remaining == IF ok THEN flush.remaining
                           ELSE Append(flush.remaining, it)
          IN  /\ posted' = IF ok THEN posted \cup {it.idempotencyKey} ELSE posted
              /\ IF flush.at < Len(flush.q)
                 THEN /\ flush' = [flush EXCEPT !.at = @ + 1,
                                                !.remaining = remaining]
                      /\ UNCHANGED <<storage, released, currentId>>
                 ELSE /\ flush' = NoFlush
                      /\ storage' = SetAskQueue(storage, remaining)
                      /\ Notified(SetAskQueue(storage, remaining))
    /\ UNCHANGED <<tabCore, shared, enqueued>>

NextTab ==
    \/ Mount
    \/ Reload
    \/ ReleaseNext
    \/ PinTopic
    \/ OnAskQueued
    \/ OnAskSent
    \/ FlushTimer
    \/ FlushFetch

SpecTab == InitTab /\ [][NextTab]_vars

-----------------------------------------------------------------------------
(* The slide builders, one call at a time; lengths in hundredths of an inch *)

Max2(a, b) == IF a >= b THEN a ELSE b
Min2(a, b) == IF a <= b THEN a ELSE b

\* x or d, for a number: None and 0 both give d
NumOr(x, d) == IF x = None \/ x = 0 THEN d ELSE x

\* _first_nonempty(*vals): the first value that is non-empty once stripped
RECURSIVE _first_nonempty(_)
_first_nonempty(vals) ==
    IF vals = <<>> THEN <<>>
    ELSE IF Strip(Head(vals)) # <<>> THEN Strip(Head(vals))
         ELSE _first_nonempty(Tail(vals))

\* sep.join(l)
RECURSIVE Join(_, _)
Join(l, sep) ==
    IF l = <<>> THEN <<>>
    ELSE IF Len(l) = 1 THEN l[1]
         ELSE l[1] \o sep \o Join(Tail(l), sep)

CommaSpace == <<44, 32>>   \* ", "

\* _as_csv(x): ", ".join(str(i) for i in x if i)
_as_csv(x) == Join(SelectSeq(x, LAMBDA s : s # <<>>), CommaSpace)

\* str(x or "") for a list of strings: "" for the empty list, else the
\* list as Python prints it, ['a', 'b']
PyStr(x) ==
    IF x = <<>> THEN <<>>
    ELSE <<91>> \o Join([k \in DOMAIN x |-> <<39>> \o x[k] \o <<39>>], CommaSpace)
         \o <<93>>

Shape(k, label, text, left, top, width, height) ==
    [kind |-> k, label |-> label, text |-> text, left |-> left, top |-> top,
     width |-> width, height |-> height]

\* add_item_slide: "Clamp/normalize rail metrics", and the content region
RailMetrics(r) ==
    LET rail_left_0 == NumOr(r.left_in, 0)
        rail_width == Max2(50, NumOr(r.width_in, 350))
        rail_left == Max2(0, Min2(rail_left_0, Max2(0, r.sw - rail_width)))
        content_left == rail_left + rail_width + 25
    IN  [rail_left |-> rail_left, rail_width |-> rail_width,
         content_left |-> content_left,
         content_width |-> Max2(250, r.sw - content_left - 40)]

line_gap == 35

\* add_item_slide._add_meta(label, value) on the boxes drawn so far
_add_meta_Blank(st, label, value, left, width) ==
    [boxes |-> Append(st.boxes, Shape("meta", label, value, left, st.meta_top, width, 35)),
     meta_top |-> st.meta_top + line_gap]

_add_meta(st, label, value, left, width) ==
    IF value = <<>> THEN st
    ELSE [boxes |-> Append(st.boxes,
                           Shape("meta", label, value, left, st.meta_top, width, 35)),
          meta_top |-> st.meta_top + line_gap]

\* the _add_meta calls of add_item_slide, in order
MetaFields(it, m) ==
    << [label |-> "Feature ID", value |-> _first_nonempty(<<it.roadmap_id>>)],
       [label |-> "Status", value |-> it.status],
       [label |-> "Products", value |-> _as_csv(it.products)],
       [label |-> "Platforms", value |-> _as_csv(it.platforms)],
       [label |-> "Audience", value |-> PyStr(it.audience)],
       [label |-> "Month", value |-> m] >>

RECURSIVE MetaLoop(_, _, _, _)
MetaLoop(st, fields, left, width) ==
    IF fields = <<>> THEN st
    ELSE MetaLoop(_add_meta(st, Head(fields).label, Head(fields).value, left, width),
                  Tail(fields), left, width)

\* add_item_slide, as the shapes it puts on the slide it adds: the rail,
\* the title, the summary, the meta boxes, the URL box, the brand image
ItemSlideShapes(it, m, r, img) ==
    LET g == RailMetrics(r)
        title == _first_nonempty(<<it.title, Untitled>>)
        summary == _first_nonempty(<<it.summary, it.description>>)
        meta_left == g.rail_left + 35
        meta_width == g.rail_width - 70
        start == [boxes |-> <<>>, meta_top |-> 60]
        meta == MetaLoop(start, MetaFields(it, m), meta_left, meta_width)
    IN  << Shape("rail", "", <<>>, g.rail_left, 0, g.rail_width, r.sh),
           Shape("title", "", title, g.content_left, 60, g.content_width, 180) >>
        \o (IF summary # <<>>
            THEN << Shape("summary", "", summary, g.content_left, 210,
                          g.content_width, 330) >>
            ELSE <<>>)
        \o meta.boxes
        \o (IF it.url # <<>>
            THEN << Shape("url", "", it.url, meta_left, meta.meta_top, meta_width, 45) >>
            ELSE <<>>)
        \o (IF img = "valid"
            THEN << Shape("picture", "", <<>>, g.content_left, r.sh - 120, 0, 100) >>
            ELSE <<>>)

\* os.path.exists(image_path) for a path that was given
Exists(img) == img \in {"invalid", "valid"}

\* add_agenda_slide, add_conclusion_slide: the slide, its background, then
\* the title box
add_titled_slide(sl, k, img) ==
    LET s1 == Append(sl, Slide(k, <<>>))
        bg == add_bg(Exists(img))
    IN  IF bg # "none" THEN Thrown(bg, s1) ELSE Thrown(add_title_box, s1)

\* add_thankyou_slide: the slide and its background
add_thankyou_slide(sl, img) ==
    LET s1 == Append(sl, Slide("ThankYou", <<>>))
        bg == add_bg(Exists(img))
    IN  IF bg # "none" THEN Thrown(bg, s1) ELSE Done(s1)

Builders == {"cover", "agenda", "separator", "item", "conclusion", "thankyou"}
ImageStates == {"none", "missing", "invalid", "valid"}

Letter(c) == <<c>>

SlideItems ==
    [title : {<<>>, Letter(84)},
     summary : {<<>>, Letter(83)},
     description : {<<>>, Letter(68)},
     roadmap_id : {<<>>, <<52, 56, 50>>},
     url : {<<>>, Letter(117)},
     status : {<<>>, Letter(80)},
     products : {<<>>, <<Letter(65)>>, <<Letter(65), Letter(66)>>},
     platforms : {<<>>, <<Letter(87)>>},
     audience : {<<>>, <<Letter(69)>>}]

MonthStrs == {<<>>, Letter(77)}

\* rail arguments, on the blank 4:3 presentation and on a 16:9 template
Rails ==
    [left_in : {None, -100, 350, 1200},
     width_in : {None, 20, 350, 2000},
     sw : {1000, 1333},
     sh : {750}]

InitBuilders ==
    /\ pc = "draw_start"
    /\ BuildIdle
    /\ parser = "roadmap" /\ file = "missing" /\ soup = EmptySoup /\ month = <<>>
    /\ dicts = <<>> /\ ran = {}
    /\ item = NoItem /\ raw = NoItem
    /\ on_disk = <<TRUE, TRUE>> /\ exit_code = NoExit
    /\ IdleBot /\ IdleTab /\ IdleUnit
    /\ builder \in Builders
    /\ image \in ImageStates
    /\ shapes = <<>>
    /\ \/ /\ builder = "item"
          /\ \/ slide_item \in SlideItems /\ month_str \in MonthStrs /\ rail = DefaultRail
             \/ slide_item = BlankItem /\ month_str = <<>> /\ rail \in Rails
       \/ /\ builder # "item"
          /\ slide_item = BlankItem /\ month_str = <<>> /\ rail = DefaultRail

drawCore == <<inputs, assets, mergeVars, saveVars, parseVars, normVars, cliVars,
              botVars, tabVars, unitVars, builder, image, slide_item, month_str, rail>>

Returned(r) ==
    /\ slides' = r.slides
    /\ exc' = r.exc
    /\ pc' = IF r.exc # "none" THEN "raised" ELSE "draw_returned"

\* add_cover_slide(prs, assets, ...)
AddCoverSlide ==
    /\ pc = "draw_start" /\ builder = "cover"
    /\ Returned(add_cover_slide(slides, [cover |-> Exists(image), separator |-> FALSE]))
    /\ UNCHANGED <<drawCore, shapes>>

\* add_agenda_slide(prs, assets)
AddAgendaSlide ==
    /\ pc = "draw_start" /\ builder = "agenda"
    /\ Returned(add_titled_slide(slides, "Agenda", image))
    /\ UNCHANGED <<drawCore, shapes>>

\* add_separator_slide(prs, assets, title=...)
AddSeparatorSlide ==
    /\ pc = "draw_start" /\ builder = "separator"
    /\ Returned(add_separator_slide(slides, [cover |-> FALSE, separator |-> Exists(image)],
                                    NoUpdatesFound, {"title"}))
    /\ UNCHANGED <<drawCore, shapes>>

\* add_item_slide(prs, it, month_str, assets, rail_left_in, rail_width_in)
AddItemSlide ==
    /\ pc = "draw_start" /\ builder = "item"
    /\ Returned(add_item_slide(slides, slide_item))
    /\ shapes' = ItemSlideShapes(slide_item, month_str, rail, image)
    /\ UNCHANGED drawCore

\* add_conclusion_slide(prs, assets, links)
AddConclusionSlide ==
    /\ pc = "draw_start" /\ builder = "conclusion"
    /\ Returned(add_titled_slide(slides, "Conclusion", image))
    /\ UNCHANGED <<drawCore, shapes>>

\* add_thankyou_slide(prs, assets)
AddThankyouSlide ==
    /\ pc = "draw_start" /\ builder = "thankyou"
    /\ Returned(add_thankyou_slide(slides, image))
    /\ UNCHANGED <<drawCore, shapes>>

NextBuilders ==
    \/ AddCoverSlide
    \/ AddAgendaSlide
    \/ AddSeparatorSlide
    \/ AddItemSlide
    \/ AddConclusionSlide
    \/ AddThankyouSlide

SpecBuilders == InitBuilders /\ [][NextBuilders]_vars

-----------------------------------------------------------------------------
(* The unit helpers, one call at a time *)

\* EMU_PER_INCH = 914400
EMU_PER_INCH == 914400

\* round(n / d) for d > 0
RoundDiv(n, d) == (2 * n + d) \div (2 * d)

\* inches_to_emu(x), x in hundredths of an inch:
\* 0 for None, else int(round(float(x) * EMU_PER_INCH))
inches_to_emu(x) == IF x = None THEN 0 ELSE RoundDiv(x * EMU_PER_INCH, 100)

UnitArgs == {None} \cup (-MaxArg)..MaxArg

InitUnits ==
    /\ pc = "unit_start"
    /\ BuildIdle
    /\ parser = "roadmap" /\ file = "missing" /\ soup = EmptySoup /\ month = <<>>
    /\ dicts = <<>> /\ ran = {}
    /\ item = NoItem /\ raw = NoItem
    /\ on_disk = <<TRUE, TRUE>> /\ exit_code = NoExit
    /\ IdleBot /\ IdleTab /\ IdleDraw
    /\ helper \in {"inches_to_emu", "_inches"}
    /\ arg \in UnitArgs
    /\ gave = [exc |-> "none", value |-> 0]

unitCore == <<coreVars, parseVars, normVars, cliVars, botVars, tabVars, drawVars,
              helper, arg>>

\* inches_to_emu(x)
CallInchesToEmu ==
    /\ pc = "unit_start" /\ helper = "inches_to_emu"
    /\ gave' = [exc |-> "none", value |-> inches_to_emu(arg)]
    /\ pc' = "unit_returned"
    /\ UNCHANGED <<unitCore, exc>>

\* _inches(x): return _inches(0.0 if x is None else float(x))
CallInches ==
    /\ pc = "unit_start" /\ helper = "_inches"
    /\ gave' = [exc |-> _inches, value |-> 0]
    /\ exc' = _inches
    /\ pc' = "raised"
    /\ UNCHANGED unitCore

NextUnits ==
    \/ CallInchesToEmu
    \/ CallInches

SpecUnits == InitUnits /\ [][NextUnits]_vars

-----------------------------------------------------------------------------
(* Vocabulary of the properties *)

\* the dedupe key: lowercased, trimmed roadmap_id if non-empty, else title
\* if non-empty, else url
ClaimKey(it) ==
    IF it.roadmap_id # <<>> THEN Strip(Lower(it.roadmap_id))
    ELSE IF it.title # <<>> THEN Strip(Lower(it.title))
    ELSE Strip(Lower(it.url))

\* the elements of seq at the positions in idx, in seq order
SubseqAt(seq, idx) ==
    LET F[j \in 0..Len(seq)] ==
            IF j = 0 THEN <<>>
            ELSE IF j \in idx THEN Append(F[j - 1], seq[j]) ELSE F[j - 1]
    IN  F[Len(seq)]

\* positions of seq whose value under f occurs at no earlier position
FirstPositions(seq, f(_)) ==
    {j \in DOMAIN seq : \A h \in 1..(j - 1) : f(seq[h]) # f(seq[j])}

ToItems(recs) == [k \in DOMAIN recs |-> _to_item(recs[k])]

\* primary product: first element of products, "General" when there is none
ClaimPrimary(it) == IF it.products = <<>> THEN General ELSE it.products[1]

FirstSeenOrder(its) ==
    LET prods == [k \in DOMAIN its |-> ClaimPrimary(its[k])]
    IN  SubseqAt(prods, FirstPositions(prods, LAMBDA q : q))

RECURSIVE JoinProducts(_)
JoinProducts(l) ==
    IF l = <<>> THEN <<>>
    ELSE IF Len(l) = 1 THEN l[1]
    ELSE l[1] \o <<44, 32>> \o JoinProducts(Tail(l))

\* (products joined or empty, title) of a is not greater than that of b
ClaimOrderLeq(a, b) ==
    LET pa == JoinProducts(a.products)
        pb == JoinProducts(b.products)
    IN  IF pa # pb THEN StrLess(pa, pb) ELSE ~StrLess(b.title, a.title)

Ascending(its) ==
    \A a, b \in DOMAIN its : a < b => ClaimOrderLeq(its[a], its[b])

\* what the merge step makes of the inputs
FinalItems(ins) == DedupAndOrder(Aggregate(ins))

RECURSIVE ExpectedGroups(_, _)
ExpectedGroups(ord, its) ==
    IF ord = <<>> THEN <<>>
    ELSE LET mine == SelectSeq(its, LAMBDA it : ClaimPrimary(it) = Head(ord))
         IN  <<Slide("Separator", Head(ord) \o Updates)>>
             \o [k \in DOMAIN mine |-> Slide("Item", mine[k].title)]
             \o ExpectedGroups(Tail(ord), its)

ExpectedDeck(its) ==
    <<Slide("Cover", <<>>), Slide("Agenda", <<>>)>>
    \o ExpectedGroups(FirstSeenOrder(its), its)
    \o <<Slide("Conclusion", <<>>), Slide("ThankYou", <<>>)>>

BuildEnded == pc \in {"raised", "done"}

\* the candidate tables of a document that yield an accepted row
YieldingTables(s) ==
    {k \in DOMAIN s.tables :
        IsCandidate(s.tables[k]) /\ RoadmapTableDicts(s.tables[k], <<>>) # <<>>}

\* the records the table path derives from the rows of a document
TableRowRecords(s, m) ==
    UNION {{RoadmapRowDict(s.tables[k].hdrs, s.tables[k].rows[j], m) :
               j \in DOMAIN s.tables[k].rows} : k \in DOMAIN s.tables}

\* the status the vocabulary gives for a phases text: the value of the first
\* entry whose key is a case-insensitive substring of it, else the text
ClaimStatus(phases) ==
    LET hits == {n \in DOMAIN PHASE_TO_STATUS_MAP :
                    IsSubstring(PHASE_TO_STATUS_MAP[n].key, Lower(phases))}
    IN  IF hits = {} THEN phases ELSE PHASE_TO_STATUS_MAP[Min(hits)].val

\* the title of a table row: its title cell, else its first cell
ClaimRowTitle(t, row) ==
    IF Get(t.hdrs, row.tds, "title") # <<>> THEN Get(t.hdrs, row.tds, "title")
    ELSE row.tds[1]

\* the tasks with this id that wait in the queue
QueuedWith(id) == {p \in DOMAIN queue : queue[p].id = id}

\* the cards delivered for this id
CardsDelivered(id) == {j \in DOMAIN log[id] : log[id][j].ok}

\* the index of the current topic in the topic list, 0 when there is none
CurrentIndex == indexOfTopic(currentTopic(released, currentId))

\* the value of a meta field of the Item slide, by the field's label
ClaimMetaValue(label) ==
    CASE label = "Feature ID" -> slide_item.roadmap_id
      [] label = "Status" -> slide_item.status
      [] label = "Products" -> slide_item.products
      [] label = "Platforms" -> slide_item.platforms
      [] label = "Audience" -> slide_item.audience
      [] label = "Month" -> month_str

MetaLabels == {"Feature ID", "Status", "Products", "Platforms", "Audience", "Month"}

\* the boxes drawn on the rail, in drawing order
RailBoxes == SelectSeq(shapes, LAMBDA s : s.kind \in {"meta", "url"})

HasShape(k) == \E j \in DOMAIN shapes : shapes[j].kind = k

ItemSlideDrawn == pc = "draw_returned" /\ builder = "item"

\* the rail rectangle of the Item slide
RailShape == shapes[Min({j \in DOMAIN shapes : shapes[j].kind = "rail"})]

\* the tasks that got a fresh uuid: one task for each id
UuidTasks == {id \in TaskIds : id # IdemKey}

\* the task of this id is held somewhere on its way to another delivery
Pending(id) ==
    \/ \E p \in DOMAIN queue : queue[p].id = id
    \/ \E j \in DOMAIN batch : batch[j].id = id
    \/ \E j \in DOMAIN timers : timers[j].id = id

\* the task of this id was accepted by Dispatcher.enqueue
Accepted(id) == \E k \in DOMAIN asked : asked[k] = id

\* the task of this id is recorded in the dead-letter queue
DeadLettered(id) == \E j \in DOMAIN dlq : dlq[j].id = id

\* the idempotency keys of the items in the shared ask queue
QueuedKeys ==
    {storage.pendingAskQueue[k].idempotencyKey : k \in DOMAIN storage.pendingAskQueue}

-----------------------------------------------------------------------------
(* Properties *)

\* C1: when the inputs yield at least one final Item, the slides build() has
\* appended when it ends are exactly Cover, Agenda, then per product group in
\* group order a Separator and the group's Item slides, then Conclusion and
\* ThankYou.
C1_DeckSequence ==
    (BuildEnded /\ FinalItems(inputs).exc = "none" /\ FinalItems(inputs).list # <<>>)
        => slides = ExpectedDeck(FinalItems(inputs).list)

\* C2: when no Item survives parsing and de-duplication, build() ends without
\* an exception, having appended exactly Cover, Agenda, a Separator titled
\* "No updates found", Conclusion and ThankYou.
C2_EmptyDeck ==
    (BuildEnded /\ FinalItems(inputs) = Ok(<<>>))
        => /\ exc = "none"
           /\ slides = <<Slide("Cover", <<>>), Slide("Agenda", <<>>),
                         Slide("Separator", NoUpdatesFound),
                         Slide("Conclusion", <<>>), Slide("ThankYou", <<>>)>>

\* C3: no two distinct Items of the de-duplicated result have the same dedupe
\* key (lowercased, trimmed roadmap_id, else title, else url).
C3_DistinctKeys ==
    \A a, b \in DOMAIN items : a # b => ClaimKey(items[a]) # ClaimKey(items[b])

C3_Witness ==
    /\ pc = "deduped"
    /\ Len(items) >= 2
    /\ \E a, b \in DOMAIN all_items :
          /\ a < b
          /\ all_items[a] # all_items[b]
          /\ ClaimKey(all_items[a]) # <<>>
          /\ ClaimKey(all_items[a]) = ClaimKey(all_items[b])

\* C4: the merged sequence is the inputs' records in the order given; for
\* every dedupe key de-duplication keeps the Item that occurs first in it,
\* and the survivors keep their relative order (an Item without roadmap_id,
\* title and url has no key). Two records from different inputs with the
\* same roadmap_id leave one Item, the one of the first input.
C4_FirstOccurrenceWins ==
    pc = "deduped" =>
        /\ all_items = ToItems(inputs[1]) \o ToItems(inputs[2])
        /\ items = SubseqAt(all_items,
                     {j \in FirstPositions(all_items, ClaimKey) :
                         ClaimKey(all_items[j]) # <<>>})

C4_Witness ==
    /\ pc = "deduped"
    /\ \E a \in DOMAIN inputs[1], b \in DOMAIN inputs[2] :
          /\ inputs[1][a].roadmap_id # <<>>
          /\ inputs[1][a].roadmap_id = inputs[2][b].roadmap_id
          /\ inputs[1][a] # inputs[2][b]
          /\ \E k \in DOMAIN items : items[k] = _to_item(inputs[1][a])
          /\ \A k \in DOMAIN items : items[k] # _to_item(inputs[2][b])
          /\ Len(items) >= 2

\* C5: the dedupe-and-order step is idempotent: applied to its own output it
\* completes and returns the same Items in the same order.
C5_Idempotent ==
    pc = "sorted" => DedupAndOrder(items) = Ok(items)

C5_Witness ==
    /\ pc = "sorted"
    /\ Len(items) >= 2
    /\ Len(items) < Len(all_items)
    /\ items # _dedup_keep_order(all_items)

\* C6: every final Item belongs to exactly one group, the group of its
\* primary product (first element of products, "General" when empty), and
\* the Separator slides of the groups appear in the order in which the
\* primary products are first seen.
C6_GroupSeparators ==
    (pc \in {"raised", "emitted"} /\ order # <<>>) =>
        LET seps == SelectSeq(slides, LAMBDA s : s.kind = "Separator")
        IN  /\ \A k \in DOMAIN items :
                  {q \in DOMAIN by_product : items[k] \in Range(by_product[q])}
                      = {ClaimPrimary(items[k])}
            /\ order = FirstSeenOrder(items)
            /\ [k \in DOMAIN seps |-> seps[k].title]
                   = [k \in DOMAIN order |-> order[k] \o Updates]

\* the grouping itself: a partition of items by primary product, groups in
\* first-seen order, each group in items order
GroupingCorrect ==
    pc = "grouped" =>
        /\ order = FirstSeenOrder(items)
        /\ DOMAIN by_product = Range(order)
        /\ \A q \in DOMAIN by_product :
              by_product[q] = SelectSeq(items, LAMBDA it : ClaimPrimary(it) = q)

\* C7: for any de-duplicated list, also one that mixes Items with and without
\* products, the ordering step completes and leaves the Items in ascending
\* order of (products joined or empty, title).
C7_SortCompletes ==
    [][pc = "deduped" => (pc' = "sorted" /\ Ascending(items'))]_vars


\* C8: when the save to the requested path fails with a permission error and
\* a later attempt succeeds, the deck is written at a disambiguated path that
\* differs from the requested one, and that path is the one _safe_save
\* returns and build() reports.
C8_FallbackPath ==
    (pc = "done" /\ attempts[1].outcome = "PermissionError") =>
        LET written == attempts[Len(attempts)].path
        IN  /\ written # output_path
            /\ \E k \in 1..(Tries - 1), c \in 0..MaxClock :
                  written = Candidate(output_path, k, c)
            /\ returned = written
            /\ reported = written

\* C9: the save routine makes at most one attempt at the requested path plus
\* 3 more, and no attempt after the first targets the requested path again.
C9_AttemptBound ==
    /\ Len(attempts) <= 1 + 3
    /\ \A k \in DOMAIN attempts : k > 1 => attempts[k].path # output_path

\* C10: when every save attempt has failed, the routine has ended after a
\* bounded number of attempts by raising the exception of its last attempt,
\* which leaves build(); nothing is returned and no path is reported.
C10_ExhaustionPropagates ==
    /\ Len(attempts) <= Tries + 1
    /\ (pc # "save_loop" /\ \A k \in DOMAIN attempts : attempts[k].outcome # "ok")
          => /\ pc = "raised"
             /\ exc = attempts[Len(attempts)].outcome
             /\ returned = NoPath
             /\ reported = NoPath
    /\ reported # NoPath => attempts[Len(attempts)].outcome = "ok"

C10_Witness ==
    /\ pc = "raised"
    /\ Len(attempts) = Tries + 1
    /\ \A k \in DOMAIN attempts : attempts[k].outcome = "PermissionError"
    /\ exc = "PermissionError"

\* C11: whatever the inputs and the asset images, an exception leaves build()
\* only when the save has failed on every attempt, and it is then the
\* exception of the last attempt; no parsing, merging or slide-drawing step
\* raises to the caller.
C11_RaisesOnlyOnSave ==
    exc # "none" =>
        /\ attempts # <<>>
        /\ \A k \in DOMAIN attempts : attempts[k].outcome # "ok"
        /\ exc = attempts[Len(attempts)].outcome

\* C12: each parser returns an empty list and does not raise when its path
\* names no file, a file that cannot be read, or a zero-byte file.
C12_GracefulDegradation ==
    (file \in {"missing", "unreadable", "empty"} /\ pc \in {"parse_returned", "raised"})
        => /\ pc = "parse_returned"
           /\ exc = "none"
           /\ dicts = <<>>

\* C13: in the roadmap parser, once a candidate table has yielded an
\* accepted row the card fallback is not run and every record of the result
\* is derived from a table row; the card fallback runs only when no table
\* yielded an accepted row.
C13_TablePrecedence ==
    (parser = "roadmap" /\ pc \in {"roadmap_cards", "parse_returned"}) =>
        /\ YieldingTables(soup) # {} =>
              /\ pc = "parse_returned"
              /\ "cards" \notin ran
              /\ dicts # <<>>
              /\ \A k \in DOMAIN dicts : dicts[k] \in TableRowRecords(soup, month)
        /\ (pc = "roadmap_cards" \/ "cards" \in ran) => YieldingTables(soup) = {}

C13_Witness ==
    /\ parser = "roadmap"
    /\ pc = "parse_returned"
    /\ "table" \in ran
    /\ YieldingTables(soup) # {}
    /\ \E k \in DOMAIN soup.cards : soup.cards[k].title # <<>>
    /\ dicts # <<>>

\* C14: every record a parser emits, on the table path and on the card path
\* of either parser, and the Item made of it, has a non-empty title or a
\* non-empty url.
C14_TitleOrUrl ==
    \A k \in DOMAIN dicts :
        /\ dicts[k].title # <<>> \/ dicts[k].url # <<>>
        /\ _to_item(dicts[k]).title # <<>> \/ _to_item(dicts[k]).url # <<>>

\* C15: for every normalized Item with a non-empty product, product is the
\* element at index 0 of products, whatever the list held before (nothing,
\* other products, or product at a later position).
C15_ProductFirst ==
    (pc = "normalized" /\ item.product # <<>>) =>
        /\ item.products # <<>>
        /\ item.products[1] = item.product

\* C16: every Item build() passes to slide emission has been normalized: its
\* title is the cleaned title of the Item it was aggregated as, clamped to
\* 140 characters, so it is at most 140 characters long and ends in an
\* ellipsis mark when the raw title was longer.
C16_EmittedItemsNormalized ==
    pc = "grouped" =>
        \A k \in DOMAIN items :
            /\ Len(items[k].title) <= TitleMax
            /\ \E a \in DOMAIN all_items :
                  /\ all_items[a].roadmap_id = items[k].roadmap_id
                  /\ all_items[a].url = items[k].url
                  /\ Len(all_items[a].title) > TitleMax
                        => items[k].title[Len(items[k].title)] = 8230

C18_NoSlideBeforeMerge ==
    [][slides' # slides => pc \in {"sorted", "grouped"}]_vars

\* C19: normalization leaves a non-empty status as it is; with an empty
\* status and non-empty phases the status becomes the value of the first
\* vocabulary entry whose key is a case-insensitive substring of phases, or
\* the phases text unchanged when no entry matches; with both empty the
\* status stays empty.
C19_StatusDerivation ==
    pc = "normalized" =>
        /\ raw.status # <<>> => item.status = raw.status
        /\ (raw.status = <<>> /\ raw.phases # <<>>) => item.status = ClaimStatus(raw.phases)
        /\ (raw.status = <<>> /\ raw.phases = <<>>) => item.status = <<>>

\* C20: a roadmap table row without a feature id cell whose link holds
\* featureid=N gives a record whose roadmap_id is N.
C20_FeatureIdFromUrl ==
    (parser = "roadmap" /\ pc = "parse_returned" /\ YieldingTables(soup) # {}) =>
        LET t == soup.tables[Min(YieldingTables(soup))]
        IN  \A j \in DOMAIN t.rows :
                LET row == t.rows[j]
                    N == FeatureIdInUrl(row.href)
                IN  (Get(t.hdrs, row.tds, "feature id") = <<>> /\ N # <<>>) =>
                        \E k \in DOMAIN dicts :
                            /\ dicts[k].title = ClaimRowTitle(t, row)
                            /\ dicts[k].roadmap_id = N

\* C21: asks submitted to /api/ask with the same Idempotency-Key result in at
\* most one queued task and at most one delivered card.
C21_EnqueueIdempotent ==
    /\ Cardinality(QueuedWith(IdemKey)) <= 1
    /\ Cardinality(CardsDelivered(IdemKey)) <= 1

\* C22: with PREVENT_BACKWARDS enabled, no releaseNext and no pinTopic action
\* of the tab decreases the index of the current topic in the topic list.
C22_NoBackwardJump ==
    [][(ReleaseNext \/ PinTopic) => CurrentIndex' >= CurrentIndex]_vars

\* every topic is released and the last one is current, so that the pin of
\* any earlier topic would be a backward jump
C22_Witness ==
    /\ shared
    /\ Len(released) = Len(topics)
    /\ CurrentIndex = Len(topics)

\* C23: the Item slide has a box for a meta field (Feature ID, Status,
\* Products, Platforms, Audience, Month, URL) exactly when the field's value
\* is non-empty, the boxes follow each other at one fixed vertical step, the
\* summary box is there only when summary or description is non-empty, and
\* the title box is always there.
C23_MetaBoxes ==
    ItemSlideDrawn =>
        /\ \A label \in MetaLabels :
              (\E j \in DOMAIN shapes :
                  shapes[j].kind = "meta" /\ shapes[j].label = label)
              <=> ClaimMetaValue(label) # <<>>
        /\ HasShape("url") <=> slide_item.url # <<>>
        /\ \A j \in DOMAIN RailBoxes : RailBoxes[j].text # <<>>
        /\ \A j, k \in 1..(Len(RailBoxes) - 1) :
              /\ RailBoxes[j + 1].top > RailBoxes[j].top
              /\ RailBoxes[j + 1].top - RailBoxes[j].top
                    = RailBoxes[k + 1].top - RailBoxes[k].top
        /\ HasShape("summary") =>
              (slide_item.summary # <<>> \/ slide_item.description # <<>>)
        /\ HasShape("title")

\* an Item slide was drawn for an Item without summary and status but with
\* a Feature ID, products and a url
C23_Witness ==
    /\ ItemSlideDrawn
    /\ slide_item.summary = <<>> /\ slide_item.description = <<>>
    /\ slide_item.status = <<>>
    /\ slide_item.roadmap_id # <<>> /\ slide_item.products # <<>>
    /\ slide_item.url # <<>>
    /\ Len(RailBoxes) = 3

\* C24: for any rail width and left offset, the rail drawn on an Item slide
\* stays within the slide: rail_left >= 0 and rail_left + rail_width is at
\* most the slide width.
C24_RailWithinSlide ==
    ItemSlideDrawn =>
        /\ RailShape.left >= 0
        /\ RailShape.left + RailShape.width <= rail.sw

\* C25: in every slide builder a missing or invalid asset image is skipped
\* and a failing picture insertion is caught inside the builder: the builder
\* returns normally and the slide it appended stays in the presentation.
C25_ImageFailureCaught ==
    (pc # "draw_start" /\ builder # "none" /\ image \in {"missing", "invalid"}) =>
        /\ pc = "draw_returned"
        /\ exc = "none"
        /\ Len(slides) = 1

\* C26: inches_to_emu and _inches return for every input, and return the
\* length at 914400 units per inch, 0 for None.
C26_InchesHelpers ==
    pc \in {"unit_returned", "raised"} /\ helper # "none" =>
        /\ gave.exc = "none"
        /\ arg = None => gave.value = 0
        /\ arg # None => gave.value * 100 = arg * 914400

(* C27: de-duplication loses no content. Every Item of the merged input    *)
(* with a non-empty title or a non-empty url has an Item with the same     *)
(* dedupe key in the de-duplicated list, and an Item is removed only       *)
(* because an earlier Item had the same key: every Item that no earlier    *)
(* Item shares its key with is kept.                                       *)
C27_NoContentLost ==
    pc = "deduped" =>
        /\ \A j \in DOMAIN all_items :
              (all_items[j].title # <<>> \/ all_items[j].url # <<>>) =>
                  \E k \in DOMAIN items :
                      ClaimKey(items[k]) = ClaimKey(all_items[j])
        /\ items = SubseqAt(all_items, FirstPositions(all_items, ClaimKey))

(* C28: a task whose delivery keeps failing is attempted at most           *)
(* MAX_RETRIES times in total, its attempts counter is strictly greater    *)
(* at each failed attempt than at the one before, and once attempts has    *)
(* reached MAX_RETRIES the task is neither delivered again nor held for    *)
(* another delivery - with the in-memory queue and with the storage queue. *)
C28_RetriesBounded ==
    pc = "serving" =>
        \A id \in UuidTasks :
            /\ Len(log[id]) <= MAX_RETRIES
            /\ \A a \in DOMAIN log[id], b \in DOMAIN log[id] :
                  (a < b /\ ~log[id][a].ok /\ ~log[id][b].ok) =>
                      log[id][a].attempts < log[id][b].attempts
            /\ \A a \in DOMAIN log[id] :
                  log[id][a].attempts >= MAX_RETRIES =>
                      /\ a = Len(log[id])
                      /\ ~Pending(id)

(* C29: every task accepted by Dispatcher.enqueue ends in exactly one      *)
(* terminal state, delivered and completed or recorded in the dead-letter  *)
(* queue, and none is silently dropped: at every moment an accepted task   *)
(* is still held for a delivery, or it was delivered, or it is in the      *)
(* dead-letter queue, and it is never both delivered and dead-lettered.    *)
C29_NoTaskDropped ==
    pc = "serving" =>
        \A id \in UuidTasks :
            Accepted(id) =>
                /\ \/ Pending(id)
                   \/ CardsDelivered(id) # {}
                   \/ DeadLettered(id)
                /\ ~(CardsDelivered(id) # {} /\ DeadLettered(id))

(* C30: no ask item is lost under any interleaving of enqueueAsk and       *)
(* flushAskQueue: whenever no flush is under way, every item that was ever *)
(* put on the shared ask queue has been POSTed to /api/ask or is still in  *)
(* the queue.                                                              *)
C30_NoAskLost ==
    (pc = "tab" /\ flush = NoFlush) =>
        \A key \in enqueued : key \in posted \/ key \in QueuedKeys

====
